---- MODULE Spec2Model ----
(***************************************************************************)
(* A model of the template ingestion pipeline of template-doc-gen:         *)
(*   - pkg/schema   SchemaManager (GetSchema, fetchSchema, normalization)  *)
(*   - pkg/template Processor (ProcessAllTemplates, ProcessTemplate,       *)
(*                  ValidateTemplate, ExtractMetadata)                     *)
(*                                                                         *)
(* Three state machines share the module:                                  *)
(*   Spec / FairSpec  one call of ProcessAllTemplates with its worker pool *)
(*   SchemaSpec       concurrent GetSchema callers on one SchemaManager    *)
(*   ValidateSpec     ValidateTemplate / ExtractMetadata applied to        *)
(*                    documents drawn from a bounded set                   *)
(***************************************************************************)
EXTENDS Integers, Sequences, FiniteSets, TLC

(***************************************************************************)
(* Go strings.  A string is a sequence of characters; a character is a     *)
(* one-letter TLA+ string, except LONG_S, which stands for U+017F (LATIN   *)
(* SMALL LETTER LONG S), the one non-ASCII rune in the simple case-folding *)
(* orbit of a letter of the type names.                                    *)
(***************************************************************************)
Lowers == <<"a","b","c","d","e","f","g","h","i","j","k","l","m",
            "n","o","p","q","r","s","t","u","v","w","x","y","z">>

Uppers == <<"A","B","C","D","E","F","G","H","I","J","K","L","M",
            "N","O","P","Q","R","S","T","U","V","W","X","Y","Z">>

Letters == {Lowers[i] : i \in 1..Len(Lowers)} \cup {Uppers[i] : i \in 1..Len(Uppers)}

LetterIndex == [c \in Letters |->
                  CHOOSE i \in 1..Len(Lowers) : Lowers[i] = c \/ Uppers[i] = c]

\* unicode.ToLower on one rune: U+017F is already lower case.
ToLowerRune(c) == IF c \in Letters THEN Lowers[LetterIndex[c]] ELSE c

\* unicode.ToUpper on one rune: the upper case of U+017F is S.
ToUpperRune(c) ==
    IF c = "LONG_S" THEN "S"
    ELSE IF c \in Letters THEN Uppers[LetterIndex[c]] ELSE c

\* strings.ToLower
ToLower(s) == [i \in 1..Len(s) |-> ToLowerRune(s[i])]

\* The least rune of the simple-folding orbit of c (unicode.SimpleFold
\* walks the orbit S -> s -> U+017F -> S).
FoldRune(c) == ToLowerRune(ToUpperRune(c))

\* strings.EqualFold: equality under simple Unicode case folding.
EqualFold(s, t) ==
    /\ Len(s) = Len(t)
    /\ \A i \in 1..Len(s) : FoldRune(s[i]) = FoldRune(t[i])

(***************************************************************************)
(* The template type constants and the spellings the model feeds in.       *)
(***************************************************************************)
TemplatePipeline == <<"p","i","p","e","l","i","n","e">>

TemplateStage == <<"s","t","a","g","e">>

TemplateStepGroup == <<"s","t","e","p","g","r","o","u","p">>

TemplateStep == <<"s","t","e","p">>

ValidTemplateTypes == <<TemplatePipeline, TemplateStage, TemplateStepGroup, TemplateStep>>

ValidTypeSet == {ValidTemplateTypes[i] : i \in 1..Len(ValidTemplateTypes)}

\* strings.ToUpper / title case of an ASCII word, used to write spellings.
UpperWord(s) == [i \in 1..Len(s) |-> ToUpperRune(s[i])]

TitleWord(s) == [i \in 1..Len(s) |-> IF i = 1 THEN ToUpperRune(s[i]) ELSE s[i]]

\* First letter lower, the rest upper: differs from the word only in case.
MixedWord(s) == [i \in 1..Len(s) |-> IF i = 1 THEN s[i] ELSE ToUpperRune(s[i])]

S_StepGroup == <<"S","t","e","p","G","r","o","u","p">>

S_Step_Group == <<"S","t","e","p"," ","G","r","o","u","p">>

S_LongStage == <<"LONG_S","t","a","g","e">>

S_trigger == <<"t","r","i","g","g","e","r">>

S_Invalid == <<"I","n","v","a","l","i","d">>

\* Spellings that differ from a template type only in letter case.
CaseSpellings ==
    UNION {{t, TitleWord(t), UpperWord(t), MixedWord(t)} : t \in ValidTypeSet}
      \cup {S_StepGroup, S_LongStage}

\* Every type spelling the model feeds to the validator and the cache.
TypeSpellings == CaseSpellings \cup {S_Step_Group, S_trigger, S_Invalid, <<>>}

(***************************************************************************)
(* SchemaManager: type normalization and the type-to-file mapping.         *)
(***************************************************************************)
schemaTypeNormalize(schemaType) ==
    CASE schemaType \in {TitleWord(TemplatePipeline), UpperWord(TemplatePipeline)}
           -> TemplatePipeline
      [] schemaType \in {TitleWord(TemplateStage), UpperWord(TemplateStage)}
           -> TemplateStage
      [] schemaType \in {S_StepGroup, UpperWord(TemplateStepGroup), S_Step_Group}
           -> TemplateStepGroup
      [] schemaType \in {TitleWord(TemplateStep), UpperWord(TemplateStep)}
           -> TemplateStep
      [] OTHER -> schemaType

\* schemaMapping of fetchSchema, with its default of pipeline.json.
SchemaFileFor(schemaType) ==
    CASE schemaType = TemplatePipeline -> "pipeline.json"
      [] schemaType = TemplateStage -> "template.json"
      [] schemaType = TemplateStep -> "template.json"
      [] schemaType = TemplateStepGroup -> "template.json"
      [] schemaType = S_trigger -> "trigger.json"
      [] OTHER -> "pipeline.json"

\* GetSchema followed by fetchSchema as one sequential caller runs them.
\* fetchOK is the outcome of the HTTP GET, status check, read and JSON parse.
\* A schema document is identified by the file it was fetched from.
GetSchemaSeq_NegativeEntry(cache, schemaType, fetchOK) ==
    LET key == schemaTypeNormalize(schemaType) IN
    IF key \in DOMAIN cache
    THEN [err |-> cache[key] = "none", schema |-> cache[key], cache |-> cache,
          fetched |-> FALSE]
    ELSE [err |-> ~fetchOK, schema |-> IF fetchOK THEN SchemaFileFor(key) ELSE "none",
          cache |-> [k \in DOMAIN cache \cup {key} |->
                        IF k # key THEN cache[k]
                        ELSE IF fetchOK THEN SchemaFileFor(key) ELSE "none"],
          fetched |-> TRUE]

GetSchemaSeq(cache, schemaType, fetchOK) ==
    LET key == schemaTypeNormalize(schemaType) IN
    IF key \in DOMAIN cache
    THEN [err |-> FALSE, schema |-> cache[key], cache |-> cache, fetched |-> FALSE]
    ELSE IF fetchOK
         THEN [err |-> FALSE, schema |-> SchemaFileFor(key),
               cache |-> [k \in DOMAIN cache \cup {key} |->
                             IF k = key THEN SchemaFileFor(key) ELSE cache[k]],
               fetched |-> TRUE]
         ELSE [err |-> TRUE, schema |-> "none", cache |-> cache, fetched |-> TRUE]

(***************************************************************************)
(* Template documents: Go values of dynamic type (interface{}).  A value   *)
(* is [kind, v]; a map value holds a function from keys to values.         *)
(***************************************************************************)
StrV(s) == [kind |-> "string", v |-> s]

IntV(n) == [kind |-> "int", v |-> n]

FloatV(q) == [kind |-> "float64", v |-> q]

NilV == [kind |-> "nil", v |-> 0]

BoolV(b) == [kind |-> "bool", v |-> b]

MapV(f) == [kind |-> "map", v |-> f]

\* A float64 is written in quarters: FloatV(q) is the number q/4, which a
\* float64 holds exactly (1.0 is FloatV(4), 1.25 is FloatV(5)).
QuartersPerUnit == 4

\* []interface{}
SeqV(s) == [kind |-> "seq", v |-> s]

\* Not a Go value: marks a key the document does not carry.
Absent == [kind |-> "absent", v |-> 0]

\* The map with the keys of f that are not marked absent.
MkMap(f) == [k \in {x \in DOMAIN f : f[x] # Absent} |-> f[k]]

HasKey(m, key) == key \in DOMAIN m

\* m[key] of a Go map: the zero value (nil) when the key is missing.
Lookup(m, key) == IF key \in DOMAIN m THEN m[key] ELSE NilV

S_Test == <<"T">>

S_UnnamedTemplate == <<"U","n","n","a","m","e","d"," ","T","e","m","p","l","a","t","e">>

S_unnamed_template == <<"u","n","n","a","m","e","d","_","t","e","m","p","l","a","t","e">>

S_unknown == <<"u","n","k","n","o","w","n">>

NameChoices == {Absent, NilV, IntV(7), StrV(S_Test)}

TypeChoices == {Absent, NilV, IntV(7)} \cup {StrV(s) : s \in TypeSpellings}

\* The template objects the model draws from.
TemplateObjects ==
    {MkMap([name |-> n, type |-> t]) : n \in NameChoices, t \in TypeChoices}

\* The documents the model draws from: without a template key (with and
\* without other fields), with a template that is no mapping, and with each
\* template object.
Documents ==
    {MkMap([template |-> Absent, name |-> Absent]),
     MkMap([template |-> Absent, name |-> StrV(S_Test), type |-> StrV(TitleWord(TemplatePipeline))]),
     MkMap([template |-> NilV]),
     MkMap([template |-> StrV(<<"N","o","t"," ","a","n"," ","o","b","j","e","c","t">>)])}
      \cup {MkMap([template |-> MapV(o)]) : o \in TemplateObjects}

(***************************************************************************)
(* Processor.ValidateTemplate                                              *)
(***************************************************************************)
\* The loop over ValidTemplateTypes with strings.EqualFold.
TypeValid_ExactMatch(typeStr) ==
    \E i \in 1..Len(ValidTemplateTypes) : typeStr = ValidTemplateTypes[i]

TypeValid(typeStr) ==
    \E i \in 1..Len(ValidTemplateTypes) : EqualFold(typeStr, ValidTemplateTypes[i])

\* The loop over requiredFields: the first of name, type that is missing,
\* or "" when both are present.
MissingRequired(templateMap) ==
    IF ~HasKey(templateMap, "name") THEN "name"
    ELSE IF ~HasKey(templateMap, "type") THEN "type"
    ELSE ""

\* The structural checks: "" when the document passes, else the message.
StructuralCheck(templateData) ==
    IF ~HasKey(templateData, "template") THEN "Missing template key"
    ELSE IF templateData["template"].kind # "map" THEN "Template value is not an object"
    ELSE LET templateMap == templateData["template"].v IN
         IF MissingRequired(templateMap) = "name" THEN "Missing required field: name"
         ELSE IF MissingRequired(templateMap) = "type" THEN "Missing required field: type"
         ELSE IF Lookup(templateMap, "type").kind # "string" THEN "Type field is not a string"
         ELSE IF ~TypeValid(Lookup(templateMap, "type").v) THEN "Invalid template type"
         ELSE ""

SchemaEvalOutcomes == {"error", "violations", "valid"}

\* The schema branch, after GetSchema returned: getErr is GetSchema's error,
\* evalOutcome what gojsonschema.Validate answers.
SchemaVerdict_RejectViolations(getErr, evalOutcome) ==
    IF getErr THEN [valid |-> TRUE, msg |-> "Basic validation passed (schema not available)"]
    ELSE IF evalOutcome = "error"
    THEN [valid |-> TRUE, msg |-> "Basic validation passed (with Harness schema inconsistency)"]
    ELSE IF evalOutcome = "violations"
    THEN [valid |-> FALSE, msg |-> "Schema validation failed"]
    ELSE [valid |-> TRUE, msg |-> "Template is valid according to Harness schema"]

SchemaVerdict(getErr, evalOutcome) ==
    IF getErr THEN [valid |-> TRUE, msg |-> "Basic validation passed (schema not available)"]
    ELSE IF evalOutcome = "error"
    THEN [valid |-> TRUE, msg |-> "Basic validation passed (with Harness schema inconsistency)"]
    ELSE IF evalOutcome = "violations"
    THEN [valid |-> TRUE, msg |-> "Basic validation passed (with expected Harness schema inconsistencies)"]
    ELSE [valid |-> TRUE, msg |-> "Template is valid according to Harness schema"]

\* ValidateTemplate: the verdict, the message, the cache after the call,
\* the schema document evaluated ("none" when none was) and the HTTP GETs
\* the call issued, each with the cache key it was for and its outcome.
\* hasManager is p.schemaManager != nil.
ValidateTemplate(hasManager, cache, templateData, fetchOK, evalOutcome) ==
    LET reject == StructuralCheck(templateData) IN
    IF reject # ""
    THEN [valid |-> FALSE, msg |-> reject, cache |-> cache, schema |-> "none",
          fetches |-> <<>>]
    ELSE IF ~hasManager
    THEN [valid |-> TRUE, msg |-> "Template is valid (basic validation only)",
          cache |-> cache, schema |-> "none", fetches |-> <<>>]
    ELSE LET typeStr == templateData["template"].v["type"].v
             normalizedType == schemaTypeNormalize(typeStr)
             got == GetSchemaSeq(cache, normalizedType, fetchOK)
             verdict == SchemaVerdict(got.err, evalOutcome)
         IN  [valid |-> verdict.valid, msg |-> verdict.msg,
              cache |-> got.cache, schema |-> got.schema,
              fetches |-> IF got.fetched
                          THEN <<[key |-> schemaTypeNormalize(normalizedType),
                                  ok |-> ~got.err]>>
                          ELSE <<>>]

(***************************************************************************)
(* Processor.ExtractMetadata                                               *)
(***************************************************************************)
\* m[key].(string) with a default: the comma-ok assertion of the extractor.
StringOr(m, key, defaultValue) ==
    IF HasKey(m, key) /\ m[key].kind = "string" THEN m[key].v ELSE defaultValue

DigitChars == <<"0","1","2","3","4","5","6","7","8","9">>

\* The decimal digits of a natural number.
RECURSIVE Digits(_)
Digits(n) ==
    IF n < 10 THEN <<DigitChars[n + 1]>>
    ELSE Digits(n \div 10) \o <<DigitChars[(n % 10) + 1]>>

\* fmt.Sprintf("%.1f", version) of a non-negative float64 given in quarters:
\* the nearest number of tenths, a tie going to the even digit.
SprintfOneDecimal(q) ==
    LET halfTenths == (10 * q * 2) \div QuartersPerUnit
        down == halfTenths \div 2
        tenths == IF halfTenths % 2 = 0 THEN down
                  ELSE IF down % 2 = 0 THEN down ELSE down + 1
    IN  Digits(tenths \div 10) \o <<".", DigitChars[(tenths % 10) + 1]>>

S_1_0_0 == <<"1",".","0",".","0">>

\* The versionLabel branch: a string as it is, a float64 formatted, anything
\* else leaves the default.
ExtractVersion(templateObj) ==
    IF Lookup(templateObj, "versionLabel").kind = "string"
    THEN Lookup(templateObj, "versionLabel").v
    ELSE IF Lookup(templateObj, "versionLabel").kind = "float64"
    THEN SprintfOneDecimal(Lookup(templateObj, "versionLabel").v)
    ELSE S_1_0_0

\* The loop over a []interface{} that appends its string elements.
RECURSIVE AppendStrings(_, _)
AppendStrings(acc, items) ==
    IF items = <<>> THEN acc
    ELSE AppendStrings(IF Head(items).kind = "string" THEN Append(acc, Head(items).v)
                       ELSE acc,
                       Tail(items))

\* A Go slice: whether it is nil, and its elements.
Slice(elems) == [isNil |-> FALSE, elems |-> elems]

\* The tags branch, starting from Tags: []string{}.
ExtractTags_KeepAll(templateObj) ==
    IF Lookup(templateObj, "tags").kind = "seq"
    THEN Slice([i \in 1..Len(Lookup(templateObj, "tags").v) |->
                  Lookup(templateObj, "tags").v[i].v])
    ELSE Slice(<<>>)

ExtractTags(templateObj) ==
    IF Lookup(templateObj, "tags").kind = "seq"
    THEN Slice(AppendStrings(<<>>, Lookup(templateObj, "tags").v))
    ELSE Slice(<<>>)

S_string == <<"s","t","r","i","n","g">>

S_template == <<"t","e","m","p","l","a","t","e">>

S_Harness == <<"H","a","r","n","e","s","s">>

\* getStringValue: m[key].(string), or the default.
getStringValue_Coerce(m, key, defaultValue) ==
    IF Lookup(m, key).kind = "string" THEN Lookup(m, key).v
    ELSE IF Lookup(m, key).kind = "int" THEN Digits(Lookup(m, key).v)
    ELSE defaultValue

getStringValue(m, key, defaultValue) ==
    IF Lookup(m, key).kind = "string" THEN Lookup(m, key).v ELSE defaultValue

\* getBoolValue: m[key].(bool), or the default.
getBoolValue(m, key, defaultValue) ==
    IF Lookup(m, key).kind = "bool" THEN Lookup(m, key).v ELSE defaultValue

\* The variables branch, starting from make(map[string]Variable): one
\* Variable for each entry of the mapping that is itself a mapping.
ExtractVariables(templateObj) ==
    IF Lookup(templateObj, "variables").kind = "map"
    THEN LET entries == Lookup(templateObj, "variables").v IN
         [name \in {n \in DOMAIN entries : entries[n].kind = "map"} |->
            [Description |-> getStringValue(entries[name].v, "description", <<>>),
             Type |-> getStringValue(entries[name].v, "type", S_string),
             Required |-> getBoolValue(entries[name].v, "required", FALSE),
             Scope |-> getStringValue(entries[name].v, "scope", S_template)]]
    ELSE <<>>

\* The parameters branch, starting from make(map[string]Parameter).
ExtractParameters(templateObj) ==
    IF Lookup(templateObj, "parameters").kind = "map"
    THEN LET entries == Lookup(templateObj, "parameters").v IN
         [name \in {n \in DOMAIN entries : entries[n].kind = "map"} |->
            [Description |-> getStringValue(entries[name].v, "description", <<>>),
             Type |-> getStringValue(entries[name].v, "type", S_string),
             Required |-> getBoolValue(entries[name].v, "required", FALSE),
             Default |-> Lookup(entries[name].v, "default"),
             Scope |-> getStringValue(entries[name].v, "scope", S_template)]]
    ELSE <<>>

\* The examples branch, starting from Examples: []string{}.
ExtractExamples(templateObj) ==
    IF Lookup(templateObj, "examples").kind = "seq"
    THEN Slice(AppendStrings(<<>>, Lookup(templateObj, "examples").v))
    ELSE Slice(<<>>)

\* ExtractMetadata with the check of the template object left out: a
\* document without one yields the record of defaults.
ExtractMetadata_NeverFails(templateData) ==
    LET templateObj == IF Lookup(templateData, "template").kind = "map"
                       THEN templateData["template"].v ELSE <<>> IN
    [err |-> FALSE,
     metadata |->
       [Name |-> StringOr(templateObj, "name", S_UnnamedTemplate),
        Identifier |-> StringOr(templateObj, "identifier", S_unnamed_template),
        Type |-> IF HasKey(templateObj, "type") /\ templateObj["type"].kind = "string"
                 THEN ToLower(templateObj["type"].v) ELSE S_unknown,
        Description |-> StringOr(templateObj, "description", <<>>),
        Author |-> StringOr(templateObj, "author", S_Harness),
        Version |-> ExtractVersion(templateObj),
        Tags |-> ExtractTags(templateObj),
        Variables |-> ExtractVariables(templateObj),
        Parameters |-> ExtractParameters(templateObj),
        Examples |-> ExtractExamples(templateObj),
        RawTemplate |-> templateData]]

ExtractMetadata(templateData) ==
    IF ~(HasKey(templateData, "template") /\ templateData["template"].kind = "map")
    THEN [err |-> TRUE, metadata |-> NilV]
    ELSE LET templateObj == templateData["template"].v IN
         [err |-> FALSE,
          metadata |->
            [Name |-> StringOr(templateObj, "name", S_UnnamedTemplate),
             Identifier |-> StringOr(templateObj, "identifier", S_unnamed_template),
             Type |-> IF HasKey(templateObj, "type") /\ templateObj["type"].kind = "string"
                      THEN ToLower(templateObj["type"].v) ELSE S_unknown,
             Description |-> StringOr(templateObj, "description", <<>>),
             Author |-> StringOr(templateObj, "author", S_Harness),
             Version |-> ExtractVersion(templateObj),
             Tags |-> ExtractTags(templateObj),
             Variables |-> ExtractVariables(templateObj),
             Parameters |-> ExtractParameters(templateObj),
             Examples |-> ExtractExamples(templateObj),
             RawTemplate |-> templateData]]

(***************************************************************************)
(* yaml.Unmarshal into map[string]interface{}, for the nodes the model     *)
(* puts under versionLabel and tags.  A scalar is its text and whether it  *)
(* is quoted; yaml.v3 resolves a plain scalar to an int when it is a run   *)
(* of digits, to a float64 when it is digits with one point, and to a      *)
(* string otherwise, and a quoted scalar to a string.                      *)
(***************************************************************************)
Plain(text) == [node |-> "scalar", quoted |-> FALSE, text |-> text]

Quoted(text) == [node |-> "scalar", quoted |-> TRUE, text |-> text]

NoNode == [node |-> "absent"]

EmptyMapNode == [node |-> "map"]

SeqNode(items) == [node |-> "seq", items |-> items]

IsDigits(text) ==
    text # <<>> /\ \A i \in 1..Len(text) : \E d \in 1..10 : text[i] = DigitChars[d]

\* strconv.ParseInt of a run of digits.
RECURSIVE ParseDigits(_)
ParseDigits(text) ==
    IF text = <<>> THEN 0
    ELSE 10 * ParseDigits(SubSeq(text, 1, Len(text) - 1))
           + (CHOOSE d \in 0..9 : DigitChars[d + 1] = text[Len(text)])

\* The quarters of a fraction the model writes: .0, .25, .5, .75.
FractionQuarters(text) ==
    CASE text \in {<<>>, <<"0">>} -> 0
      [] text = <<"2","5">> -> 1
      [] text = <<"5">> -> 2
      [] text = <<"7","5">> -> 3

PointAt(text) == CHOOSE i \in 1..Len(text) : text[i] = "."

\* digits "." digits: the text of a float.
IsFloatText(text) ==
    /\ Cardinality({i \in 1..Len(text) : text[i] = "."}) = 1
    /\ IsDigits(SubSeq(text, 1, PointAt(text) - 1))
    /\ \/ PointAt(text) = Len(text)
       \/ IsDigits(SubSeq(text, PointAt(text) + 1, Len(text)))

ResolveScalar(n) ==
    IF n.quoted THEN StrV(n.text)
    ELSE IF IsDigits(n.text) THEN IntV(ParseDigits(n.text))
    ELSE IF IsFloatText(n.text)
    THEN FloatV(QuartersPerUnit * ParseDigits(SubSeq(n.text, 1, PointAt(n.text) - 1))
                  + FractionQuarters(SubSeq(n.text, PointAt(n.text) + 1, Len(n.text))))
    ELSE StrV(n.text)

DecodeNode(n) ==
    CASE n.node = "absent" -> Absent
      [] n.node = "scalar" -> ResolveScalar(n)
      [] n.node = "map" -> MapV(<<>>)
      [] n.node = "seq" -> SeqV([i \in 1..Len(n.items) |-> ResolveScalar(n.items[i])])

\* A template file: a stage template named T with the given versionLabel
\* and tags nodes.
YamlFile(versionLabel, tags) ==
    [file |-> TRUE, versionLabel |-> versionLabel, tags |-> tags]

Unmarshal(y) ==
    MkMap([template |->
             MapV(MkMap([name |-> StrV(S_Test),
                         type |-> StrV(TitleWord(TemplateStage)),
                         versionLabel |-> DecodeNode(y.versionLabel),
                         tags |-> DecodeNode(y.tags)]))])

S_1 == <<"1">>

S_2 == <<"2">>

S_1_0 == <<"1",".","0">>

S_1_25 == <<"1",".","2","5">>

S_a == <<"a">>

S_b == <<"b">>

VersionNodes ==
    {NoNode, Plain(S_1), Plain(S_2), Plain(S_1_0), Plain(S_1_25), Plain(S_1_0_0),
     Quoted(S_1_0)}

TagNodes ==
    {NoNode, EmptyMapNode, Plain(S_a), SeqNode(<<>>),
     SeqNode(<<Plain(S_b), Plain(S_a)>>), SeqNode(<<Plain(S_a), Plain(S_1), Quoted(S_a)>>)}

YamlFiles == {YamlFile(v, t) : v \in VersionNodes, t \in TagNodes}

\* Not a file: the document was built in memory.
NoYaml == [file |-> FALSE, versionLabel |-> NoNode, tags |-> NoNode]

\* Documents built in memory, as a Go program writes them: a stage template
\* named T with a versionLabel and tags of every dynamic type.
VersionChoices ==
    {Absent, NilV, StrV(<<"1",".","2",".","3">>), StrV(S_2), IntV(1), IntV(2),
     FloatV(4), FloatV(8), FloatV(5), FloatV(7)}

TagChoices ==
    {Absent, NilV, StrV(S_a), MapV(<<>>), MapV(MkMap([a |-> StrV(S_b)])), SeqV(<<>>),
     SeqV(<<StrV(S_b), StrV(S_a)>>), SeqV(<<StrV(S_a), IntV(1), StrV(S_a)>>)}

FieldDocuments ==
    {MkMap([template |->
              MapV(MkMap([name |-> StrV(S_Test),
                          type |-> StrV(TitleWord(TemplateStage)),
                          versionLabel |-> v,
                          tags |-> t]))]) : v \in VersionChoices, t \in TagChoices}

S_number == <<"n","u","m","b","e","r">>

S_true == <<"t","r","u","e">>

\* One entry of a variables or parameters mapping: no mapping at all, a
\* mapping without fields, with fields of the wrong type, and with fields
\* of the right type.
EntryChoices ==
    {StrV(S_a), NilV, SeqV(<<StrV(S_a)>>), MapV(<<>>),
     MapV(MkMap([description |-> IntV(2), type |-> IntV(1), required |-> StrV(S_true),
                 scope |-> NilV])),
     MapV(MkMap([description |-> StrV(S_a), type |-> StrV(S_number),
                 required |-> BoolV(TRUE), scope |-> StrV(TemplatePipeline),
                 default |-> IntV(5)])),
     MapV(MkMap([required |-> BoolV(FALSE), default |-> MapV(MkMap([a |-> StrV(S_b)]))])),
     MapV(MkMap([type |-> BoolV(TRUE), default |-> NilV]))}

\* What a document carries under variables or parameters.
EntryMaps ==
    {Absent, NilV, StrV(S_a), SeqV(<<>>), MapV(<<>>)}
      \cup {MapV(MkMap([x |-> e])) : e \in EntryChoices}
      \cup {MapV(MkMap([x |-> StrV(S_a), y |-> MapV(MkMap([type |-> StrV(S_number)]))])),
            MapV(MkMap([x |-> MapV(MkMap([default |-> StrV(S_a)])),
                        y |-> MapV(MkMap([required |-> BoolV(TRUE)]))]))}

IdentifierChoices == {Absent, IntV(7), StrV(S_a)}

\* Stage templates named T with an identifier and a variables or a
\* parameters field of every dynamic type.
EntryDocuments ==
    {MkMap([template |->
              MapV(MkMap([name |-> StrV(S_Test),
                          type |-> StrV(TitleWord(TemplateStage)),
                          identifier |-> i,
                          variables |-> m]))]) : i \in IdentifierChoices, m \in EntryMaps}
      \cup
    {MkMap([template |->
              MapV(MkMap([name |-> StrV(S_Test),
                          type |-> StrV(TitleWord(TemplateStage)),
                          identifier |-> i,
                          parameters |-> m]))]) : i \in IdentifierChoices, m \in EntryMaps}

(***************************************************************************)
(* State.                                                                  *)
(***************************************************************************)
VARIABLES
    schemaCache,     \* SchemaManager.schemaCache: normalized type -> schema document
    hasManager,      \* Processor.schemaManager != nil
    vstep,           \* ValidateSpec: "init", "loaded", "validated", "extracted" or "again"
    vdoc,            \* ValidateSpec: the document of the last call
    vsrc,            \* ValidateSpec: the file the document was parsed from
    venv,            \* ValidateSpec: the fetch and evaluation outcomes of the last call
    vres,            \* ValidateSpec: what ValidateTemplate returned
    vmeta,           \* ValidateSpec: what ExtractMetadata returned
    pstep,           \* FileSpec: the position of ProcessTemplate
    pfile,           \* FileSpec: what the file at templatePath holds, fixed when it is read
    pres,            \* FileSpec: what ProcessTemplate returned
    ptrace,          \* history: the steps ProcessTemplate has taken, in order
    readers,         \* cacheMutex: the callers holding the read lock
    writer,          \* cacheMutex: the caller holding the write lock, 0 when none
    cpc,             \* SchemaSpec: each caller's position in GetSchema / fetchSchema
    ctype,           \* SchemaSpec: the schemaType argument of each caller's call
    ckey,            \* SchemaSpec: each caller's normalized schemaType
    cexists,         \* SchemaSpec: each caller's `exists` of the cache lookup
    cschema,         \* SchemaSpec: each caller's `schema` (looked up, or fetched)
    cres,            \* SchemaSpec: what each caller's last call returned
    ncalls,          \* SchemaSpec: GetSchema calls begun so far
    fetches,         \* history: HTTP GETs issued so far, per cache key
    missStarts,      \* history: calls begun while their key was not cached, per key
    pc,              \* ProcessAllTemplates: the position of the calling goroutine
    validateOnly,    \* ProcessAllTemplates: the validateOnly argument
    dirs,            \* the directories created under outputDir
    templateFiles,   \* the discovered template paths, in walk order
    numWorkers,      \* the number of workers to start
    spawned,         \* the number of workers started so far
    filesChan,       \* the buffer of filesChan
    filesClosed,     \* whether filesChan is closed
    resultChan,      \* the buffer of resultChan
    sent,            \* paths sent to filesChan so far
    received,        \* the collector's loop counter i
    wpc,             \* each worker's position
    wfile,           \* each worker's filePath
    wres,            \* each worker's result
    allMetadata,     \* the collector's allMetadata
    validCount,      \* the collector's validCount
    errorCount,      \* the collector's errorCount
    ret,             \* what ProcessAllTemplates returned
    fileContent,     \* environment: what each file holds, fixed when it is first read
    handled,         \* history: how often each path was received by a worker
    collected,       \* history: path and verdict of each result collected, in order
    fetchLog,        \* history: the schema fetches of the batch, in order
    templatesDir,    \* environment: what the templatesDir argument names
    numCPU,          \* environment: runtime.NumCPU()
    command,         \* the CLI command that is run, "none" for a direct call
    cfg,             \* the CLI configuration after the flags are applied
    cmdErr,          \* what the CLI command returned: "" for nil, "running" before
    written          \* the documentation the generate command wrote into cfg.OutputDir

fileVars == <<pstep, pfile, pres, ptrace>>

validateVars == <<vstep, vdoc, vsrc, venv, vres, vmeta, fileVars>>

schemaVars == <<readers, writer, cpc, ctype, ckey, cexists, cschema, cres, ncalls,
                fetches, missStarts>>

batchVars == <<pc, validateOnly, dirs, templateFiles, numWorkers,
               spawned, filesChan, filesClosed, resultChan, sent, received, wpc, wfile,
               wres, allMetadata, validCount, errorCount, ret, fileContent, handled,
               collected, fetchLog, templatesDir, numCPU>>

cliVars == <<command, cfg, cmdErr, written>>

vars == <<schemaCache, hasManager, validateVars, schemaVars, batchVars, cliVars>>

EmptyCache == <<>>

NoDoc == MkMap([template |-> Absent])

NoEnv == [fetchOK |-> FALSE, evalOutcome |-> "valid"]

NoVerdict == [valid |-> FALSE, msg |-> "", schema |-> "none"]

NoMeta == [err |-> TRUE, metadata |-> NilV]

\* What a file holds: whether os.ReadFile succeeds, whether yaml.Unmarshal
\* succeeds, and the document it then yields.
Unread == [read |-> FALSE, readable |-> FALSE, parses |-> FALSE, doc |-> NoDoc]

NoFileResult == [metadata |-> NilV, err |-> ""]

ValidateInitState ==
    /\ vstep = "init"
    /\ vdoc = NoDoc
    /\ vsrc = NoYaml
    /\ venv = NoEnv
    /\ vres = NoVerdict
    /\ vmeta = NoMeta
    /\ pstep = "init"
    /\ pfile = Unread
    /\ pres = NoFileResult
    /\ ptrace = <<>>

\* The most template files a run discovers, and the most CPUs of the host.
MaxFiles == 2

MaxCPU == 2

Paths == 1..MaxFiles

Workers == 1..MaxCPU

FileOf(d) == [read |-> TRUE, readable |-> TRUE, parses |-> TRUE, doc |-> d]

BatchDocuments ==
    {MkMap([template |-> MapV(MkMap([name |-> StrV(S_Test),
                                     type |-> StrV(TitleWord(TemplatePipeline))]))]),
     MkMap([template |-> MapV(MkMap([name |-> StrV(S_Test), type |-> Absent]))])}

FileContents ==
    {[read |-> TRUE, readable |-> FALSE, parses |-> FALSE, doc |-> NoDoc],
     [read |-> TRUE, readable |-> TRUE, parses |-> FALSE, doc |-> NoDoc]}
      \cup {FileOf(d) : d \in BatchDocuments}

NoWorkerResult == [metadata |-> NilV, err |-> "", path |-> 0]

NoReturn == [list |-> <<>>, isNil |-> TRUE, err |-> ""]

BatchInitState ==
    /\ dirs = {}
    /\ templateFiles = <<>>
    /\ numWorkers = 0
    /\ spawned = 0
    /\ filesChan = <<>>
    /\ filesClosed = FALSE
    /\ resultChan = <<>>
    /\ sent = 0
    /\ received = 0
    /\ wpc = [w \in Workers |-> "unstarted"]
    /\ wfile = [w \in Workers |-> 0]
    /\ wres = [w \in Workers |-> NoWorkerResult]
    /\ allMetadata = <<>>
    /\ validCount = 0
    /\ errorCount = 0
    /\ ret = NoReturn
    /\ fileContent = [f \in Paths |-> Unread]
    /\ handled = [f \in Paths |-> 0]
    /\ collected = <<>>
    /\ fetchLog = <<>>

DirInput == [kind |-> "dir", name |-> <<>>]

\* No batch is run: the arguments and the host of one that never starts.
NoBatch ==
    /\ pc = "start"
    /\ validateOnly = TRUE
    /\ templatesDir = DirInput
    /\ numCPU = 1

S_html == <<"h","t","m","l">>

S_markdown == <<"m","a","r","k","d","o","w","n">>

S_json == <<"j","s","o","n">>

NoCfg == [Concurrency |-> 0, FailFast |-> FALSE, OutputFormat |-> S_html]

\* No CLI command is run.
NoCommand ==
    /\ command = "none"
    /\ cfg = NoCfg
    /\ cmdErr = "none"
    /\ written = {}

\* The number of goroutines calling GetSchema at once, and of calls in a run.
NumCallers == 2

MaxCalls == 3

Callers == 1..NumCallers

\* The schemaType arguments the callers pass.
SchemaCallTypes ==
    {TemplatePipeline, TitleWord(TemplatePipeline), MixedWord(TemplateStage), S_Step_Group}

SchemaKeys == {schemaTypeNormalize(t) : t \in SchemaCallTypes}

NoResult == [err |-> FALSE, schema |-> "none"]

SchemaInitState ==
    /\ readers = {}
    /\ writer = 0
    /\ cpc = [c \in Callers |-> "idle"]
    /\ ctype = [c \in Callers |-> <<>>]
    /\ ckey = [c \in Callers |-> <<>>]
    /\ cexists = [c \in Callers |-> FALSE]
    /\ cschema = [c \in Callers |-> "none"]
    /\ cres = [c \in Callers |-> NoResult]
    /\ ncalls = 0
    /\ fetches = [k \in SchemaKeys |-> 0]
    /\ missStarts = [k \in SchemaKeys |-> 0]

(***************************************************************************)
(* ValidateSpec: one Processor validating a document and extracting its    *)
(* metadata, its schema manager (when set) holding any cache it can hold.  *)
(***************************************************************************)
\* The caches one earlier successful GetSchema leaves behind, and the empty one.
WarmCaches ==
    {EmptyCache} \cup {GetSchemaSeq(EmptyCache, t, TRUE).cache : t \in TypeSpellings}

ValidateInit ==
    /\ schemaCache \in WarmCaches
    /\ hasManager \in BOOLEAN
    /\ ValidateInitState
    /\ SchemaInitState
    /\ BatchInitState
    /\ NoBatch
    /\ NoCommand

\* A document arrives (parsed from a file, or built by the caller).
VLoad ==
    /\ vstep = "init"
    /\ \E d \in Documents \cup FieldDocuments \cup EntryDocuments : vdoc' = d
    /\ vstep' = "loaded"
    /\ UNCHANGED <<schemaCache, hasManager, vsrc, venv, vres, vmeta, schemaVars, fileVars,
                   batchVars, cliVars>>

\* ProcessTemplate reads a file and parses it: yaml.Unmarshal(data, &templateData).
VLoadYaml ==
    /\ vstep = "init"
    /\ \E y \in YamlFiles :
          /\ vsrc' = y
          /\ vdoc' = Unmarshal(y)
    /\ vstep' = "loaded"
    /\ UNCHANGED <<schemaCache, hasManager, venv, vres, vmeta, schemaVars, fileVars,
                   batchVars, cliVars>>

\* A call of ValidateTemplate on the document.
VValidate ==
    /\ vstep = "loaded"
    /\ \E fetchOK \in BOOLEAN, evalOutcome \in SchemaEvalOutcomes :
        LET r == ValidateTemplate(hasManager, schemaCache, vdoc, fetchOK, evalOutcome) IN
        /\ venv' = [fetchOK |-> fetchOK, evalOutcome |-> evalOutcome]
        /\ vres' = [valid |-> r.valid, msg |-> r.msg, schema |-> r.schema]
        /\ schemaCache' = r.cache
    /\ vstep' = "validated"
    /\ UNCHANGED <<hasManager, vdoc, vsrc, vmeta, schemaVars, fileVars, batchVars, cliVars>>

\* A call of ExtractMetadata on the document just validated (ProcessTemplate
\* makes it only after a true verdict; the method is exported and callable
\* on any document).
VExtract_ConsumeTemplate ==
    /\ vstep = "validated"
    /\ vstep' = "extracted"
    /\ vmeta' = ExtractMetadata(vdoc)
    /\ vdoc' = [k \in DOMAIN vdoc \ {"template"} |-> vdoc[k]]
    /\ UNCHANGED <<schemaCache, hasManager, vsrc, venv, vres, schemaVars, fileVars,
                   batchVars, cliVars>>

VExtract ==
    /\ vstep = "validated"
    /\ vstep' = "extracted"
    /\ vmeta' = ExtractMetadata(vdoc)
    /\ UNCHANGED <<schemaCache, hasManager, vdoc, vsrc, venv, vres, schemaVars, fileVars,
                   batchVars, cliVars>>

\* A second call of ExtractMetadata on the same document.
VExtractAgain ==
    /\ vstep = "extracted"
    /\ vstep' = "again"
    /\ vmeta' = ExtractMetadata(vdoc)
    /\ UNCHANGED <<schemaCache, hasManager, vdoc, vsrc, venv, vres, schemaVars, fileVars,
                   batchVars, cliVars>>

ValidateNext == VLoad \/ VLoadYaml \/ VValidate \/ VExtract \/ VExtractAgain

ValidateSpec == ValidateInit /\ [][ValidateNext]_vars

(***************************************************************************)
(* FileSpec: one call of ProcessTemplate, a step for each of its stages.   *)
(***************************************************************************)
\* The files ProcessTemplate is called on: unreadable, not YAML, and one for
\* each document.
FileInputs ==
    {[read |-> TRUE, readable |-> FALSE, parses |-> FALSE, doc |-> NoDoc],
     [read |-> TRUE, readable |-> TRUE, parses |-> FALSE, doc |-> NoDoc]}
      \cup {[read |-> TRUE, readable |-> TRUE, parses |-> TRUE, doc |-> d] : d \in Documents}

\* ProcessTemplate returns nil and the error.
FileFails(msg) ==
    /\ pres' = [metadata |-> NilV, err |-> msg]
    /\ pstep' = "returned"

\* data, err := os.ReadFile(templatePath)
PRead ==
    /\ pstep = "init"
    /\ ptrace' = Append(ptrace, "read")
    /\ \E content \in FileInputs :
         /\ pfile' = content
         /\ IF content.readable
            THEN pstep' = "read" /\ UNCHANGED pres
            ELSE FileFails("error reading template file")
    /\ UNCHANGED <<schemaCache, hasManager, vstep, vdoc, vsrc, venv, vres, vmeta,
                   schemaVars, batchVars, cliVars>>

\* yaml.Unmarshal(data, &templateData)
PParse ==
    /\ pstep = "read"
    /\ ptrace' = Append(ptrace, "parse")
    /\ IF pfile.parses
       THEN vdoc' = pfile.doc /\ pstep' = "parsed" /\ UNCHANGED pres
       ELSE FileFails("error parsing YAML") /\ UNCHANGED vdoc
    /\ UNCHANGED <<schemaCache, hasManager, vstep, vsrc, venv, vres, vmeta, pfile,
                   schemaVars, batchVars, cliVars>>

\* valid, msg := p.ValidateTemplate(templateData)
PValidate_IgnoreVerdict ==
    /\ pstep = "parsed"
    /\ ptrace' = Append(ptrace, "validate")
    /\ \E fetchOK \in BOOLEAN, evalOutcome \in SchemaEvalOutcomes :
        LET r == ValidateTemplate(hasManager, schemaCache, vdoc, fetchOK, evalOutcome) IN
        /\ venv' = [fetchOK |-> fetchOK, evalOutcome |-> evalOutcome]
        /\ vres' = [valid |-> r.valid, msg |-> r.msg, schema |-> r.schema]
        /\ schemaCache' = r.cache
        /\ pstep' = "validated" /\ UNCHANGED pres
    /\ UNCHANGED <<hasManager, vstep, vdoc, vsrc, vmeta, pfile, schemaVars, batchVars,
                   cliVars>>

PValidate ==
    /\ pstep = "parsed"
    /\ ptrace' = Append(ptrace, "validate")
    /\ \E fetchOK \in BOOLEAN, evalOutcome \in SchemaEvalOutcomes :
        LET r == ValidateTemplate(hasManager, schemaCache, vdoc, fetchOK, evalOutcome) IN
        /\ venv' = [fetchOK |-> fetchOK, evalOutcome |-> evalOutcome]
        /\ vres' = [valid |-> r.valid, msg |-> r.msg, schema |-> r.schema]
        /\ schemaCache' = r.cache
        /\ IF r.valid
           THEN pstep' = "validated" /\ UNCHANGED pres
           ELSE FileFails("validation failed")
    /\ UNCHANGED <<hasManager, vstep, vdoc, vsrc, vmeta, pfile, schemaVars, batchVars,
                   cliVars>>

\* metadata, err := p.ExtractMetadata(templateData), and the return.
PExtract ==
    /\ pstep = "validated"
    /\ ptrace' = Append(ptrace, "extract")
    /\ vmeta' = ExtractMetadata(vdoc)
    /\ IF ExtractMetadata(vdoc).err
       THEN FileFails("error extracting metadata")
       ELSE /\ pres' = [metadata |-> ExtractMetadata(vdoc).metadata, err |-> ""]
            /\ pstep' = "returned"
    /\ UNCHANGED <<schemaCache, hasManager, vstep, vdoc, vsrc, venv, vres, pfile,
                   schemaVars, batchVars, cliVars>>

FileNext == PRead \/ PParse \/ PValidate \/ PExtract

FileSpec == ValidateInit /\ [][FileNext]_vars

(***************************************************************************)
(* SchemaSpec: goroutines calling GetSchema on one SchemaManager.  Each    *)
(* lock operation and each access of the map is a step of its own.         *)
(***************************************************************************)
SchemaInit ==
    /\ schemaCache = EmptyCache
    /\ hasManager = TRUE
    /\ ValidateInitState
    /\ SchemaInitState
    /\ BatchInitState
    /\ NoBatch
    /\ NoCommand

\* GetSchema is entered: schemaType = schemaTypeNormalize(schemaType).
GetSchemaEnter(c, t) ==
    /\ cpc[c] = "idle"
    /\ ncalls < MaxCalls
    /\ ncalls' = ncalls + 1
    /\ ctype' = [ctype EXCEPT ![c] = t]
    /\ ckey' = [ckey EXCEPT ![c] = schemaTypeNormalize(t)]
    /\ cpc' = [cpc EXCEPT ![c] = "rlock"]
    /\ missStarts' = IF schemaTypeNormalize(t) \in DOMAIN schemaCache THEN missStarts
                     ELSE [missStarts EXCEPT ![schemaTypeNormalize(t)] = @ + 1]
    /\ UNCHANGED <<cliVars, batchVars, schemaCache, hasManager, validateVars, readers, writer,
                   cexists, cschema, cres, fetches>>

\* m.cacheMutex.RLock()
CacheRLock(c) ==
    /\ cpc[c] = "rlock"
    /\ writer = 0
    /\ readers' = readers \cup {c}
    /\ cpc' = [cpc EXCEPT ![c] = "lookup"]
    /\ UNCHANGED <<cliVars, batchVars, schemaCache, hasManager, validateVars, writer, ctype, ckey,
                   cexists, cschema, cres, ncalls, fetches, missStarts>>

\* schema, exists := m.schemaCache[schemaType]
CacheLookup(c) ==
    /\ cpc[c] = "lookup"
    /\ cexists' = [cexists EXCEPT ![c] = ckey[c] \in DOMAIN schemaCache]
    /\ cschema' = [cschema EXCEPT ![c] =
                     IF ckey[c] \in DOMAIN schemaCache THEN schemaCache[ckey[c]] ELSE "none"]
    /\ cpc' = [cpc EXCEPT ![c] = "runlock"]
    /\ UNCHANGED <<cliVars, batchVars, schemaCache, hasManager, validateVars, readers, writer, ctype, ckey,
                   cres, ncalls, fetches, missStarts>>

\* m.cacheMutex.RUnlock(), then the branch on exists: return the cached
\* schema, or go on to fetchSchema.
CacheRUnlock_AlwaysFetch(c) ==
    /\ cpc[c] = "runlock"
    /\ readers' = readers \ {c}
    /\ cpc' = [cpc EXCEPT ![c] = "fetch"]
    /\ UNCHANGED <<cliVars, batchVars, schemaCache, hasManager, validateVars, writer, ctype, ckey, cres,
                   cexists, cschema, ncalls, fetches, missStarts>>

CacheRUnlock_KeepReadLock(c) ==
    /\ cpc[c] = "runlock"
    /\ IF cexists[c]
       THEN /\ cpc' = [cpc EXCEPT ![c] = "idle"]
            /\ cres' = [cres EXCEPT ![c] = [err |-> FALSE, schema |-> cschema[c]]]
            /\ readers' = readers \ {c}
       ELSE /\ cpc' = [cpc EXCEPT ![c] = "fetch"]
            /\ UNCHANGED <<cres, readers>>
    /\ UNCHANGED <<cliVars, batchVars, schemaCache, hasManager, validateVars, writer, ctype, ckey,
                   cexists, cschema, ncalls, fetches, missStarts>>

CacheRUnlock(c) ==
    /\ cpc[c] = "runlock"
    /\ readers' = readers \ {c}
    /\ IF cexists[c]
       THEN /\ cpc' = [cpc EXCEPT ![c] = "idle"]
            /\ cres' = [cres EXCEPT ![c] = [err |-> FALSE, schema |-> cschema[c]]]
       ELSE /\ cpc' = [cpc EXCEPT ![c] = "fetch"]
            /\ UNCHANGED cres
    /\ UNCHANGED <<cliVars, batchVars, schemaCache, hasManager, validateVars, writer, ctype, ckey,
                   cexists, cschema, ncalls, fetches, missStarts>>

\* fetchSchema up to the JSON parse: the HTTP GET of the mapped file, which
\* fails (error, status, body, JSON) or yields the schema document.
FetchSchemaGet(c) ==
    /\ cpc[c] = "fetch"
    /\ fetches' = [fetches EXCEPT ![ckey[c]] = @ + 1]
    /\ \E ok \in BOOLEAN :
         IF ok
         THEN /\ cschema' = [cschema EXCEPT ![c] = SchemaFileFor(ckey[c])]
              /\ cpc' = [cpc EXCEPT ![c] = "lock"]
              /\ UNCHANGED cres
         ELSE /\ cpc' = [cpc EXCEPT ![c] = "idle"]
              /\ cres' = [cres EXCEPT ![c] = [err |-> TRUE, schema |-> "none"]]
              /\ UNCHANGED cschema
    /\ UNCHANGED <<cliVars, batchVars, schemaCache, hasManager, validateVars, readers, writer, ctype, ckey,
                   cexists, ncalls, missStarts>>

\* m.cacheMutex.Lock()
CacheLock_SharedLock(c) ==
    /\ cpc[c] = "lock"
    /\ writer = 0
    /\ readers' = readers \cup {c}
    /\ cpc' = [cpc EXCEPT ![c] = "store"]
    /\ UNCHANGED <<cliVars, batchVars, schemaCache, hasManager, validateVars, writer, ctype, ckey,
                   cexists, cschema, cres, ncalls, fetches, missStarts>>

CacheLock(c) ==
    /\ cpc[c] = "lock"
    /\ writer = 0
    /\ readers = {}
    /\ writer' = c
    /\ cpc' = [cpc EXCEPT ![c] = "store"]
    /\ UNCHANGED <<cliVars, batchVars, schemaCache, hasManager, validateVars, readers, ctype, ckey,
                   cexists, cschema, cres, ncalls, fetches, missStarts>>

\* m.schemaCache[schemaType] = schema
CacheStore_Replacing(c) ==
    /\ cpc[c] = "store"
    /\ schemaCache' = [k \in {ckey[c]} |-> cschema[c]]
    /\ cpc' = [cpc EXCEPT ![c] = "unlock"]
    /\ UNCHANGED <<cliVars, batchVars, hasManager, validateVars, readers, writer, ctype, ckey,
                   cexists, cschema, cres, ncalls, fetches, missStarts>>

CacheStore(c) ==
    /\ cpc[c] = "store"
    /\ schemaCache' = [k \in DOMAIN schemaCache \cup {ckey[c]} |->
                         IF k = ckey[c] THEN cschema[c] ELSE schemaCache[k]]
    /\ cpc' = [cpc EXCEPT ![c] = "unlock"]
    /\ UNCHANGED <<cliVars, batchVars, hasManager, validateVars, readers, writer, ctype, ckey,
                   cexists, cschema, cres, ncalls, fetches, missStarts>>

\* m.cacheMutex.Unlock(), and fetchSchema returns the schema.
CacheUnlock(c) ==
    /\ cpc[c] = "unlock"
    /\ writer' = 0
    /\ cpc' = [cpc EXCEPT ![c] = "idle"]
    /\ cres' = [cres EXCEPT ![c] = [err |-> FALSE, schema |-> cschema[c]]]
    /\ UNCHANGED <<cliVars, batchVars, schemaCache, hasManager, validateVars, readers, ctype, ckey,
                   cexists, cschema, ncalls, fetches, missStarts>>

SchemaNext ==
    \E c \in Callers :
        \/ \E t \in SchemaCallTypes : GetSchemaEnter(c, t)
        \/ CacheRLock(c)
        \/ CacheLookup(c)
        \/ CacheRUnlock(c)
        \/ FetchSchemaGet(c)
        \/ CacheLock(c)
        \/ CacheStore(c)
        \/ CacheUnlock(c)

SchemaSpec == SchemaInit /\ [][SchemaNext]_vars

(***************************************************************************)
(* Processor.ProcessTemplate                                               *)
(***************************************************************************)
\* read, parse, validate, extract: the metadata or the error, and the schema
\* cache after the call.
ProcessTemplate_SkipValidation(content, mgr, cache, fetchOK, evalOutcome) ==
    IF ~content.readable
    THEN [metadata |-> NilV, err |-> "error reading template file", cache |-> cache,
          fetches |-> <<>>]
    ELSE IF ~content.parses
    THEN [metadata |-> NilV, err |-> "error parsing YAML", cache |-> cache,
          fetches |-> <<>>]
    ELSE LET m == ExtractMetadata(content.doc) IN
         IF m.err
         THEN [metadata |-> NilV, err |-> "error extracting metadata", cache |-> cache,
               fetches |-> <<>>]
         ELSE [metadata |-> m.metadata, err |-> "", cache |-> cache, fetches |-> <<>>]

ProcessTemplate_RetryFetch(content, mgr, cache, fetchOK, evalOutcome) ==
    IF ~content.readable
    THEN [metadata |-> NilV, err |-> "error reading template file", cache |-> cache,
          fetches |-> <<>>]
    ELSE IF ~content.parses
    THEN [metadata |-> NilV, err |-> "error parsing YAML", cache |-> cache,
          fetches |-> <<>>]
    ELSE LET v == ValidateTemplate(mgr, cache, content.doc, fetchOK, evalOutcome)
             again == IF v.fetches # <<>> /\ ~v.fetches[1].ok
                      THEN v.fetches \o v.fetches ELSE v.fetches
         IN
         IF ~v.valid
         THEN [metadata |-> NilV, err |-> "validation failed", cache |-> v.cache,
               fetches |-> again]
         ELSE LET m == ExtractMetadata(content.doc) IN
              IF m.err
              THEN [metadata |-> NilV, err |-> "error extracting metadata",
                    cache |-> v.cache, fetches |-> again]
              ELSE [metadata |-> m.metadata, err |-> "", cache |-> v.cache,
                    fetches |-> again]

ProcessTemplate(content, mgr, cache, fetchOK, evalOutcome) ==
    IF ~content.readable
    THEN [metadata |-> NilV, err |-> "error reading template file", cache |-> cache,
          fetches |-> <<>>]
    ELSE IF ~content.parses
    THEN [metadata |-> NilV, err |-> "error parsing YAML", cache |-> cache,
          fetches |-> <<>>]
    ELSE LET v == ValidateTemplate(mgr, cache, content.doc, fetchOK, evalOutcome) IN
         IF ~v.valid
         THEN [metadata |-> NilV, err |-> "validation failed", cache |-> v.cache,
               fetches |-> v.fetches]
         ELSE LET m == ExtractMetadata(content.doc) IN
              IF m.err
              THEN [metadata |-> NilV, err |-> "error extracting metadata",
                    cache |-> v.cache, fetches |-> v.fetches]
              ELSE [metadata |-> m.metadata, err |-> "", cache |-> v.cache,
                    fetches |-> v.fetches]

(***************************************************************************)
(* Spec: one call of Processor.ProcessAllTemplates.  The calling goroutine *)
(* and each worker goroutine take their steps in any interleaving; the     *)
(* file system answers (MkdirAll, Stat, Walk, ReadFile) as it pleases.     *)
(***************************************************************************)
otherVars == <<validateVars, schemaVars>>

inputVars == <<validateOnly, hasManager, templatesDir, numCPU, cliVars>>

workerVars == <<wpc, wfile, wres>>

chanVars == <<filesChan, filesClosed, resultChan>>

collectVars == <<received, allMetadata, validCount, errorCount, collected>>

\* The names of the entries the walk meets (and of a single-file argument).
N_a_yaml == <<"a",".","y","a","m","l">>

N_b_yml == <<"b",".","y","m","l">>

N_c_txt == <<"c",".","t","x","t">>

N_yaml == <<"y","a","m","l">>

EntryNames == {N_a_yaml, N_b_yml, N_c_txt, N_yaml}

\* What templatesDir names: nothing, something os.Stat cannot reach, a file
\* of some name, or a directory.
InputPaths ==
    {[kind |-> "missing", name |-> <<>>], [kind |-> "noaccess", name |-> <<>>],
     DirInput}
      \cup {[kind |-> "file", name |-> n] : n \in EntryNames}

\* A direct call of ProcessAllTemplates by a program using the package.
Init ==
    /\ schemaCache = EmptyCache
    /\ hasManager \in BOOLEAN
    /\ validateOnly \in BOOLEAN
    /\ templatesDir \in InputPaths
    /\ numCPU \in 1..MaxCPU
    /\ pc = "start"
    /\ NoCommand
    /\ ValidateInitState
    /\ SchemaInitState
    /\ BatchInitState

\* strings.HasSuffix
HasSuffix(s, suffix) ==
    /\ Len(suffix) <= Len(s)
    /\ \A i \in 1..Len(suffix) : s[Len(s) - Len(suffix) + i] = suffix[i]

\* strings.HasSuffix(path, ".yaml") || strings.HasSuffix(path, ".yml")
IsTemplatePath(path) ==
    HasSuffix(path, <<".","y","a","m","l">>) \/ HasSuffix(path, <<".","y","m","l">>)

\* return nil, fmt.Errorf(...)
ReturnError(msg) ==
    /\ ret' = [list |-> <<>>, isNil |-> TRUE, err |-> msg]
    /\ pc' = "returned"

\* validateOnly: no directory is created.
SkipMkdir ==
    /\ pc = "start"
    /\ validateOnly
    /\ pc' = "stat"
    /\ UNCHANGED <<otherVars, inputVars, fetchLog, schemaCache, dirs, templateFiles,
                   numWorkers, spawned, sent, workerVars, chanVars, collectVars, ret,
                   fileContent, handled>>

\* os.MkdirAll(outputDir, 0755)
MkdirOutput ==
    /\ pc = "start"
    /\ ~validateOnly
    /\ \E ok \in BOOLEAN :
         IF ok
         THEN /\ dirs' = {<<>>}
              /\ pc' = "mkdirTypes"
              /\ UNCHANGED ret
         ELSE /\ ReturnError("error creating output directory")
              /\ UNCHANGED dirs
    /\ UNCHANGED <<otherVars, inputVars, fetchLog, schemaCache, templateFiles,
                   numWorkers, spawned, sent, workerVars, chanVars, collectVars,
                   fileContent, handled>>

\* One turn of the loop over ValidTemplateTypes: os.MkdirAll(typeDir, 0755).
MkdirType_FirstOnly ==
    /\ pc = "mkdirTypes"
    /\ LET i == Cardinality(dirs) IN
       \E ok \in BOOLEAN :
         IF ok
         THEN /\ dirs' = dirs \cup {ValidTemplateTypes[i]}
              /\ pc' = "stat"
              /\ UNCHANGED ret
         ELSE /\ ReturnError("error creating type directory")
              /\ UNCHANGED dirs
    /\ UNCHANGED <<otherVars, inputVars, fetchLog, schemaCache, templateFiles,
                   numWorkers, spawned, sent, workerVars, chanVars, collectVars,
                   fileContent, handled>>

MkdirType ==
    /\ pc = "mkdirTypes"
    /\ LET i == Cardinality(dirs) IN
       \E ok \in BOOLEAN :
         IF ok
         THEN /\ dirs' = dirs \cup {ValidTemplateTypes[i]}
              /\ pc' = IF i = Len(ValidTemplateTypes) THEN "stat" ELSE "mkdirTypes"
              /\ UNCHANGED ret
         ELSE /\ ReturnError("error creating type directory")
              /\ UNCHANGED dirs
    /\ UNCHANGED <<otherVars, inputVars, fetchLog, schemaCache, templateFiles,
                   numWorkers, spawned, sent, workerVars, chanVars, collectVars,
                   fileContent, handled>>

\* os.Stat(templatesDir) fails.
StatFails ==
    /\ pc = "stat"
    /\ templatesDir.kind \in {"missing", "noaccess"}
    /\ ReturnError("error accessing template directory")
    /\ UNCHANGED <<otherVars, inputVars, fetchLog, schemaCache, dirs, templateFiles,
                   numWorkers, spawned, sent, workerVars, chanVars, collectVars,
                   fileContent, handled>>

\* templatesDir is a single file: it is the one template, or an error.
StatFile_AnyFile ==
    /\ pc = "stat"
    /\ templatesDir.kind = "file"
    /\ templateFiles' = <<1>>
    /\ pc' = "found"
    /\ UNCHANGED <<otherVars, inputVars, fetchLog, schemaCache, dirs, ret,
                   numWorkers, spawned, sent, workerVars, chanVars, collectVars,
                   fileContent, handled>>

StatFile ==
    /\ pc = "stat"
    /\ templatesDir.kind = "file"
    /\ IF IsTemplatePath(templatesDir.name)
       THEN /\ templateFiles' = <<1>>
            /\ pc' = "found"
            /\ UNCHANGED ret
       ELSE /\ ReturnError("specified file is not a YAML file")
            /\ UNCHANGED templateFiles
    /\ UNCHANGED <<otherVars, inputVars, fetchLog, schemaCache, dirs,
                   numWorkers, spawned, sent, workerVars, chanVars, collectVars,
                   fileContent, handled>>

\* templatesDir is a directory: filepath.Walk begins.
StatDir ==
    /\ pc = "stat"
    /\ templatesDir.kind = "dir"
    /\ pc' = "walk"
    /\ UNCHANGED <<otherVars, inputVars, fetchLog, schemaCache, dirs, templateFiles,
                   numWorkers, spawned, sent, workerVars, chanVars, collectVars, ret,
                   fileContent, handled>>

\* The walk function is called on one more entry, without error: a file with
\* a template suffix is appended, anything else passed over.  A path is
\* named by its place in templateFiles.
WalkVisit ==
    /\ pc = "walk"
    /\ Len(templateFiles) < MaxFiles
    /\ \E name \in EntryNames, isDir \in BOOLEAN :
         templateFiles' = IF ~isDir /\ IsTemplatePath(name)
                          THEN Append(templateFiles, Len(templateFiles) + 1)
                          ELSE templateFiles
    /\ UNCHANGED <<otherVars, inputVars, fetchLog, schemaCache, pc, dirs,
                   numWorkers, spawned, sent, workerVars, chanVars, collectVars, ret,
                   fileContent, handled>>

\* The walk function is called with an error (a directory that cannot be
\* read, an entry that cannot be statted) and returns it: the walk stops.
WalkError ==
    /\ pc = "walk"
    /\ ReturnError("error walking template directory")
    /\ UNCHANGED <<otherVars, inputVars, fetchLog, schemaCache, dirs, templateFiles,
                   numWorkers, spawned, sent, workerVars, chanVars, collectVars,
                   fileContent, handled>>

\* filepath.Walk returns nil.
WalkDone ==
    /\ pc = "walk"
    /\ pc' = "found"
    /\ UNCHANGED <<otherVars, inputVars, fetchLog, schemaCache, dirs, templateFiles,
                   numWorkers, spawned, sent, workerVars, chanVars, collectVars, ret,
                   fileContent, handled>>

\* len(templateFiles) == 0: an empty list and no error.
NoFilesFound_NilList ==
    /\ pc = "found"
    /\ Len(templateFiles) = 0
    /\ ret' = [list |-> <<>>, isNil |-> TRUE, err |-> ""]
    /\ pc' = "returned"
    /\ UNCHANGED <<otherVars, inputVars, fetchLog, schemaCache, dirs, templateFiles,
                   numWorkers, spawned, sent, workerVars, chanVars, collectVars,
                   fileContent, handled>>

NoFilesFound ==
    /\ pc = "found"
    /\ Len(templateFiles) = 0
    /\ ret' = [list |-> <<>>, isNil |-> FALSE, err |-> ""]
    /\ pc' = "returned"
    /\ UNCHANGED <<otherVars, inputVars, fetchLog, schemaCache, dirs, templateFiles,
                   numWorkers, spawned, sent, workerVars, chanVars, collectVars,
                   fileContent, handled>>

\* The worker count: runtime.NumCPU() (cpus), at least 1, at most the file count.
WorkerCount_CPUOnly(cpus, nFiles) ==
    IF cpus < 1 THEN 1 ELSE cpus

WorkerCount(cpus, nFiles) ==
    LET atLeastOne == IF cpus < 1 THEN 1 ELSE cpus IN
    IF nFiles < atLeastOne THEN nFiles ELSE atLeastOne

\* make(chan result, len(templateFiles)) and make(chan string, len(templateFiles))
ResultChanCap == Len(templateFiles)

FilesChanCap == Len(templateFiles)

DetermineWorkers ==
    /\ pc = "found"
    /\ Len(templateFiles) > 0
    /\ numWorkers' = WorkerCount(numCPU, Len(templateFiles))
    /\ pc' = "spawn"
    /\ UNCHANGED <<otherVars, inputVars, fetchLog, schemaCache, dirs, templateFiles,
                   spawned, sent, workerVars, chanVars, collectVars, ret,
                   fileContent, handled>>

\* One turn of the loop that starts the workers: go func() { ... }()
StartWorker ==
    /\ pc = "spawn"
    /\ spawned < numWorkers
    /\ spawned' = spawned + 1
    /\ wpc' = [wpc EXCEPT ![spawned + 1] = "recv"]
    /\ pc' = IF spawned + 1 = numWorkers THEN "send" ELSE "spawn"
    /\ UNCHANGED <<otherVars, inputVars, fetchLog, schemaCache, dirs, templateFiles,
                   numWorkers, sent, wfile, wres, chanVars, collectVars, ret,
                   fileContent, handled>>

\* One turn of the loop that sends the paths: filesChan <- file
SendFile ==
    /\ pc = "send"
    /\ Len(filesChan) < FilesChanCap
    /\ filesChan' = Append(filesChan, templateFiles[sent + 1])
    /\ sent' = sent + 1
    /\ pc' = IF sent + 1 = Len(templateFiles) THEN "close" ELSE "send"
    /\ UNCHANGED <<otherVars, inputVars, fetchLog, schemaCache, dirs, templateFiles,
                   numWorkers, spawned, workerVars, filesClosed, resultChan,
                   collectVars, ret, fileContent, handled>>

\* close(filesChan)
CloseFilesChan_Forgotten ==
    /\ pc = "close"
    /\ pc' = "collect"
    /\ UNCHANGED <<otherVars, inputVars, fetchLog, schemaCache, dirs, templateFiles,
                   numWorkers, spawned, sent, workerVars, chanVars,
                   collectVars, ret, fileContent, handled>>

CloseFilesChan ==
    /\ pc = "close"
    /\ filesClosed' = TRUE
    /\ pc' = "collect"
    /\ UNCHANGED <<otherVars, inputVars, fetchLog, schemaCache, dirs, templateFiles,
                   numWorkers, spawned, sent, workerVars, filesChan, resultChan,
                   collectVars, ret, fileContent, handled>>

\* One turn of the collecting loop: res := <-resultChan, counted as a
\* failure or appended as a success.
\* The collecting loop keeping a record only when it holds no equal one yet.
Collect_DropDuplicates ==
    /\ pc = "collect"
    /\ received < Len(templateFiles)
    /\ resultChan # <<>>
    /\ LET res == Head(resultChan) IN
       /\ resultChan' = Tail(resultChan)
       /\ received' = received + 1
       /\ collected' = Append(collected, [path |-> res.path, ok |-> res.err = ""])
       /\ IF res.err # ""
          THEN /\ errorCount' = errorCount + 1
               /\ UNCHANGED <<allMetadata, validCount>>
          ELSE /\ allMetadata' = IF \E i \in 1..Len(allMetadata) : allMetadata[i] = res.metadata
                                 THEN allMetadata
                                 ELSE Append(allMetadata, res.metadata)
               /\ validCount' = validCount + 1
               /\ UNCHANGED errorCount
    /\ UNCHANGED <<otherVars, inputVars, fetchLog, schemaCache, pc, dirs, templateFiles,
                   numWorkers, spawned, sent, workerVars, filesChan, filesClosed, ret,
                   fileContent, handled>>

Collect_AbortOnError ==
    /\ pc = "collect"
    /\ received < Len(templateFiles)
    /\ resultChan # <<>>
    /\ LET res == Head(resultChan) IN
       /\ resultChan' = Tail(resultChan)
       /\ received' = received + 1
       /\ collected' = Append(collected, [path |-> res.path, ok |-> res.err = ""])
       /\ IF res.err # ""
          THEN /\ errorCount' = errorCount + 1
               /\ ReturnError(res.err)
               /\ UNCHANGED <<allMetadata, validCount>>
          ELSE /\ allMetadata' = Append(allMetadata, res.metadata)
               /\ validCount' = validCount + 1
               /\ UNCHANGED <<errorCount, pc, ret>>
    /\ UNCHANGED <<otherVars, inputVars, fetchLog, schemaCache, dirs, templateFiles,
                   numWorkers, spawned, sent, workerVars, filesChan, filesClosed,
                   fileContent, handled>>

Collect ==
    /\ pc = "collect"
    /\ received < Len(templateFiles)
    /\ resultChan # <<>>
    /\ LET res == Head(resultChan) IN
       /\ resultChan' = Tail(resultChan)
       /\ received' = received + 1
       /\ collected' = Append(collected, [path |-> res.path, ok |-> res.err = ""])
       /\ IF res.err # ""
          THEN /\ errorCount' = errorCount + 1
               /\ UNCHANGED <<allMetadata, validCount>>
          ELSE /\ allMetadata' = Append(allMetadata, res.metadata)
               /\ validCount' = validCount + 1
               /\ UNCHANGED errorCount
    /\ UNCHANGED <<otherVars, inputVars, fetchLog, schemaCache, pc, dirs, templateFiles,
                   numWorkers, spawned, sent, workerVars, filesChan, filesClosed, ret,
                   fileContent, handled>>

\* The collecting loop is over: return allMetadata, nil
ReturnAll ==
    /\ pc = "collect"
    /\ received = Len(templateFiles)
    /\ ret' = [list |-> allMetadata, isNil |-> FALSE, err |-> ""]
    /\ pc' = "returned"
    /\ UNCHANGED <<otherVars, inputVars, fetchLog, schemaCache, dirs, templateFiles,
                   numWorkers, spawned, sent, workerVars, chanVars, collectVars,
                   fileContent, handled>>

\* A worker's `for filePath := range filesChan` receives a path.
WorkerReceive_NoDequeue(w) ==
    /\ wpc[w] = "recv"
    /\ filesChan # <<>>
    /\ wfile' = [wfile EXCEPT ![w] = Head(filesChan)]
    /\ handled' = [handled EXCEPT ![Head(filesChan)] = @ + 1]
    /\ wpc' = [wpc EXCEPT ![w] = "process"]
    /\ UNCHANGED <<otherVars, inputVars, fetchLog, schemaCache, pc, dirs, templateFiles,
                   numWorkers, spawned, sent, wres, chanVars,
                   collectVars, ret, fileContent>>

WorkerReceive(w) ==
    /\ wpc[w] = "recv"
    /\ filesChan # <<>>
    /\ wfile' = [wfile EXCEPT ![w] = Head(filesChan)]
    /\ filesChan' = Tail(filesChan)
    /\ handled' = [handled EXCEPT ![Head(filesChan)] = @ + 1]
    /\ wpc' = [wpc EXCEPT ![w] = "process"]
    /\ UNCHANGED <<otherVars, inputVars, fetchLog, schemaCache, pc, dirs, templateFiles,
                   numWorkers, spawned, sent, wres, filesClosed, resultChan,
                   collectVars, ret, fileContent>>

\* The range loop ends: filesChan is closed and drained, the goroutine exits.
WorkerExit(w) ==
    /\ wpc[w] = "recv"
    /\ filesChan = <<>>
    /\ filesClosed
    /\ wpc' = [wpc EXCEPT ![w] = "exited"]
    /\ UNCHANGED <<otherVars, inputVars, fetchLog, schemaCache, pc, dirs, templateFiles,
                   numWorkers, spawned, sent, wfile, wres, chanVars,
                   collectVars, ret, fileContent, handled>>

\* metadata, err := p.ProcessTemplate(filePath, ...)
WorkerProcess(w) ==
    /\ wpc[w] = "process"
    /\ \E content \in FileContents, fetchOK \in BOOLEAN, evalOutcome \in SchemaEvalOutcomes :
         /\ fileContent[wfile[w]].read => content = fileContent[wfile[w]]
         /\ LET r == ProcessTemplate(content, hasManager, schemaCache, fetchOK, evalOutcome) IN
            /\ wres' = [wres EXCEPT ![w] =
                          [metadata |-> r.metadata, err |-> r.err, path |-> wfile[w]]]
            /\ schemaCache' = r.cache
            /\ fetchLog' = fetchLog \o
                   [i \in 1..Len(r.fetches) |->
                      [path |-> wfile[w], key |-> r.fetches[i].key, ok |-> r.fetches[i].ok]]
         /\ fileContent' = [fileContent EXCEPT ![wfile[w]] = content]
    /\ wpc' = [wpc EXCEPT ![w] = "emit"]
    /\ UNCHANGED <<otherVars, inputVars, pc, dirs, templateFiles,
                   numWorkers, spawned, sent, wfile, chanVars,
                   collectVars, ret, handled>>

\* resultChan <- result{...}; the loop body ends and its variables with it.
WorkerEmit(w) ==
    /\ wpc[w] = "emit"
    /\ Len(resultChan) < ResultChanCap
    /\ resultChan' = Append(resultChan, wres[w])
    /\ wpc' = [wpc EXCEPT ![w] = "recv"]
    /\ wfile' = [wfile EXCEPT ![w] = 0]
    /\ wres' = [wres EXCEPT ![w] = NoWorkerResult]
    /\ UNCHANGED <<otherVars, inputVars, fetchLog, schemaCache, pc, dirs, templateFiles,
                   numWorkers, spawned, sent, filesChan, filesClosed,
                   collectVars, ret, fileContent, handled>>

MainNext ==
    \/ SkipMkdir
    \/ MkdirOutput
    \/ MkdirType
    \/ StatFails
    \/ StatFile
    \/ StatDir
    \/ WalkVisit
    \/ WalkError
    \/ WalkDone
    \/ NoFilesFound
    \/ DetermineWorkers
    \/ StartWorker
    \/ SendFile
    \/ CloseFilesChan
    \/ Collect
    \/ ReturnAll

WorkerNext(w) ==
    \/ WorkerReceive(w)
    \/ WorkerExit(w)
    \/ WorkerProcess(w)
    \/ WorkerEmit(w)

Next == MainNext \/ \E w \in Workers : WorkerNext(w)

Spec == Init /\ [][Next]_vars

\* The Go scheduler runs every goroutine that can take a step.
FairSpec ==
    /\ Spec
    /\ WF_vars(MainNext)
    /\ \A w \in Workers : WF_vars(WorkerNext(w))

(***************************************************************************)
(* CliSpec: the validate or the generate command of the CLI is run.  The   *)
(* flags have been parsed into the command's variables; the command copies *)
(* them into cfg, checks cfg, builds a Processor with a SchemaManager and  *)
(* calls ProcessAllTemplates.                                              *)
(***************************************************************************)
\* The values of --concurrency and --fail-fast.
\* The values of --format: the three documented ones, one in capitals and
\* one that is none of them.
FormatFlags == {S_html, S_markdown, S_json, UpperWord(S_html), <<"p","d","f">>}

CliConfigs == [Concurrency : 0..MaxCPU, FailFast : BOOLEAN, OutputFormat : FormatFlags]

poolVars == <<templateFiles, numWorkers, spawned, sent, workerVars, chanVars,
              collectVars, fileContent, handled, fetchLog>>

CliInit ==
    /\ schemaCache = EmptyCache
    /\ hasManager = FALSE
    /\ validateOnly = FALSE
    /\ templatesDir \in InputPaths
    /\ numCPU \in 1..MaxCPU
    /\ pc = "cli"
    /\ command \in {"validate", "generate"}
    /\ cfg \in CliConfigs
    /\ command = "generate" => ~cfg.FailFast
    /\ command = "validate" => cfg.OutputFormat = NoCfg.OutputFormat
    /\ cmdErr = "running"
    /\ written = {}
    /\ ValidateInitState
    /\ SchemaInitState
    /\ BatchInitState

validFormats == <<S_html, S_markdown, S_json>>

\* Config.Validate: the source must exist, the output format be one of the
\* valid ones up to case, and the concurrency be at least 1.
ConfigValid ==
    /\ templatesDir.kind # "missing"
    /\ \E i \in 1..Len(validFormats) : EqualFold(cfg.OutputFormat, validFormats[i])
    /\ cfg.Concurrency >= 1

\* runValidate up to its call of ProcessAllTemplates(cfg.SourceDir, "", "", true).
RunValidate ==
    /\ pc = "cli"
    /\ command = "validate"
    /\ IF ConfigValid
       THEN /\ hasManager' = TRUE
            /\ validateOnly' = TRUE
            /\ pc' = "start"
            /\ UNCHANGED cmdErr
       ELSE /\ cmdErr' = "invalid configuration"
            /\ pc' = "exited"
            /\ UNCHANGED <<hasManager, validateOnly>>
    /\ UNCHANGED <<otherVars, schemaCache, templatesDir, numCPU, command, cfg, dirs, ret,
                   poolVars, written>>

\* runGenerate up to its call of ProcessAllTemplates(cfg.SourceDir,
\* cfg.OutputDir, cfg.OutputFormat, false).
RunGenerate ==
    /\ pc = "cli"
    /\ command = "generate"
    /\ IF ~ConfigValid
       THEN /\ cmdErr' = "invalid configuration"
            /\ pc' = "exited"
            /\ UNCHANGED <<hasManager, validateOnly, dirs>>
       ELSE \E ok \in BOOLEAN :
              IF ok
              THEN /\ dirs' = {<<>>}
                   /\ hasManager' = TRUE
                   /\ validateOnly' = FALSE
                   /\ pc' = "start"
                   /\ UNCHANGED cmdErr
              ELSE /\ cmdErr' = "failed to create output directory"
                   /\ pc' = "exited"
                   /\ UNCHANGED <<hasManager, validateOnly, dirs>>
    /\ UNCHANGED <<otherVars, schemaCache, templatesDir, numCPU, command, cfg, ret,
                   poolVars, written>>

\* ProcessAllTemplates has returned: the command wraps its error, or goes on
\* (generate: to write the documentation, which may fail) and returns.
CommandReturn_FailOnInvalid ==
    /\ pc = "returned"
    /\ command # "none"
    /\ pc' = "exited"
    /\ cmdErr' = IF ret.err # "" \/ errorCount > 0 THEN "validation failed" ELSE ""
    /\ UNCHANGED <<otherVars, schemaCache, hasManager, validateOnly, templatesDir,
                   numCPU, command, cfg, dirs, ret, poolVars, written>>

CommandReturn ==
    /\ pc = "returned"
    /\ command # "none"
    /\ pc' = "exited"
    /\ IF ret.err # ""
       THEN /\ cmdErr' = IF command = "validate" THEN "validation failed"
                         ELSE "error processing templates"
            /\ UNCHANGED written
       ELSE IF command = "validate"
       THEN cmdErr' = "" /\ UNCHANGED written
       ELSE IF cfg.OutputFormat = S_html
       THEN \E ok \in BOOLEAN :
              IF ok THEN cmdErr' = "" /\ written' = {"index.html"}
              ELSE cmdErr' = "error generating HTML documentation" /\ UNCHANGED written
       ELSE IF cfg.OutputFormat = S_json
       THEN \E ok \in BOOLEAN :
              IF ok THEN cmdErr' = "" /\ written' = {"metadata.json"}
              ELSE cmdErr' = "error writing JSON metadata" /\ UNCHANGED written
       ELSE cmdErr' = "" /\ UNCHANGED written
    /\ UNCHANGED <<otherVars, schemaCache, hasManager, validateOnly, templatesDir,
                   numCPU, command, cfg, dirs, ret, poolVars>>

CliNext == RunValidate \/ RunGenerate \/ CommandReturn \/ Next

CliSpec == CliInit /\ [][CliNext]_vars

(***************************************************************************)
(* What the claims speak of, stated apart from the operators above.        *)
(***************************************************************************)
\* Two runes are the same letter up to case.
SameRuneUpToCase(a, b) ==
    a = b \/ ToUpperRune(a) = ToUpperRune(b) \/ ToLowerRune(a) = ToLowerRune(b)

SameUpToCase(s, t) ==
    /\ Len(s) = Len(t)
    /\ \A i \in 1..Len(s) : SameRuneUpToCase(s[i], t[i])

\* The document passes the structural checks.
StructurallyValid(d) ==
    /\ "template" \in DOMAIN d
    /\ d["template"].kind = "map"
    /\ "name" \in DOMAIN d["template"].v
    /\ "type" \in DOMAIN d["template"].v
    /\ d["template"].v["type"].kind = "string"
    /\ \E t \in ValidTypeSet : SameUpToCase(d["template"].v["type"].v, t)

\* The message of the first structural check the document fails.
FirstFailure(d) ==
    CASE "template" \notin DOMAIN d -> "Missing template key"
      [] "template" \in DOMAIN d /\ d["template"].kind # "map"
           -> "Template value is not an object"
      [] OTHER ->
           LET m == d["template"].v IN
           CASE "name" \notin DOMAIN m -> "Missing required field: name"
             [] "name" \in DOMAIN m /\ "type" \notin DOMAIN m -> "Missing required field: type"
             [] OTHER -> IF m["type"].kind # "string" THEN "Type field is not a string"
                         ELSE "Invalid template type"

Validated == vstep \in {"validated", "extracted"}

\* The file can be read, parses, and its document passes the structural checks.
FileGood(content) ==
    content.readable /\ content.parses /\ StructurallyValid(content.doc)

FilesFound == 1..Len(templateFiles)

\* The paths whose results were collected as successes, in collection order.
OkPaths == SelectSeq(collected, LAMBDA r : r.ok)

Returned == pc = "returned"

\* ProcessAllTemplates returned after dispatching its files to the workers.
ReturnedBatch == Returned /\ numWorkers > 0

(***************************************************************************)
(* C1: for N >= 1 discovered files, any worker count and any interleaving, *)
(* each file is received by exactly one worker and exactly one result per  *)
(* file is collected: no file is processed twice, none is dropped, the     *)
(* success count plus the failure count is N, and when all N files are     *)
(* valid exactly N records are returned.                                   *)
(***************************************************************************)
C1_ExactlyOnce ==
    /\ \A f \in Paths : handled[f] <= 1
    /\ \A i, j \in 1..Len(collected) : i # j => collected[i].path # collected[j].path
    /\ ReturnedBatch =>
         /\ \A f \in FilesFound :
              handled[f] = 1 /\ \E i \in 1..Len(collected) : collected[i].path = f
         /\ Len(collected) = Len(templateFiles)
         /\ validCount + errorCount = Len(templateFiles)
         /\ (\A f \in FilesFound : FileGood(fileContent[f]))
              => ret.err = "" /\ Len(ret.list) = Len(templateFiles)

\* More files than workers, all valid, all returned.
C1_Witness ==
    /\ ReturnedBatch
    /\ Len(templateFiles) >= 2
    /\ numWorkers < Len(templateFiles)
    /\ \A f \in FilesFound : FileGood(fileContent[f])
    /\ Len(ret.list) = Len(templateFiles)

(***************************************************************************)
(* C2: under fair scheduling of the goroutines every call terminates:      *)
(* sending a path never finds filesChan full, a worker never finds         *)
(* resultChan full, and eventually the call has returned and every worker  *)
(* started has left its loop.                                              *)
(***************************************************************************)
NeverBlocks ==
    /\ pc = "send" => Len(filesChan) < FilesChanCap
    /\ \A w \in Workers : wpc[w] = "emit" => Len(resultChan) < ResultChanCap

AllDone == Returned /\ \A w \in Workers : wpc[w] \in {"unstarted", "exited"}

C2_Terminates == []NeverBlocks /\ <>[]AllDone

\* A batch of several files and several workers has returned, every worker exited.
C2_Witness ==
    /\ AllDone
    /\ numWorkers >= 2
    /\ Len(collected) >= 2
    /\ \A w \in 1..numWorkers : wpc[w] = "exited"

(***************************************************************************)
(* C3: a batch over a directory with good and bad files returns a nil      *)
(* error, and holds a record for a file exactly when that file's read,     *)
(* parse and structural validation succeeded; a failing file does not stop *)
(* the batch nor change the record of another file.                        *)
(***************************************************************************)
C3_ValidSubset ==
    ReturnedBatch =>
        /\ ret.err = ""
        /\ ~ret.isNil
        /\ Len(collected) = Len(templateFiles)
        /\ \A f \in FilesFound :
             (\E i \in 1..Len(OkPaths) : OkPaths[i].path = f) <=> FileGood(fileContent[f])
        /\ Len(ret.list) = Len(OkPaths)
        /\ \A i \in 1..Len(ret.list) :
             ret.list[i] = ExtractMetadata(fileContent[OkPaths[i].path].doc).metadata

\* A batch with a failed file and a good one returned the good one's record.
C3_Witness ==
    /\ ReturnedBatch
    /\ errorCount >= 1
    /\ Len(ret.list) >= 1
    /\ \E f \in FilesFound : fileContent[f].readable /\ fileContent[f].parses
                             /\ ~StructurallyValid(fileContent[f].doc)

(***************************************************************************)
(* C4: for every document that passes the structural checks the verdict is *)
(* true whatever the schema path does: no manager, fetch failure,          *)
(* evaluation error, reported violations, or none.                         *)
(***************************************************************************)
C4_SchemaNeverRejects ==
    (Validated /\ StructurallyValid(vdoc)) => vres.valid

\* The schema was fetched, the evaluation reported violations, the verdict is true.
C4_Witness ==
    /\ Validated
    /\ StructurallyValid(vdoc)
    /\ hasManager
    /\ vres.schema # "none"
    /\ venv.evalOutcome = "violations"
    /\ vres.valid

(***************************************************************************)
(* C5: the verdict is false exactly when the document has no template key, *)
(* or the template is no mapping, or name or type is absent from it, or    *)
(* type is not a string equal up to case to one of the four types; the     *)
(* first failing check, in that order, gives the message.                  *)
(***************************************************************************)
C5_RejectsExactly ==
    Validated =>
        /\ ~vres.valid <=> ~StructurallyValid(vdoc)
        /\ ~vres.valid => vres.msg = FirstFailure(vdoc)

\* A document without the template key, carrying other fields, is rejected
\* with the missing-key message.
C5_Witness ==
    /\ Validated
    /\ "template" \notin DOMAIN vdoc
    /\ "type" \in DOMAIN vdoc
    /\ ~vres.valid
    /\ vres.msg = "Missing template key"

(***************************************************************************)
(* C6 as claimed: the number of remote fetches for one type never exceeds  *)
(* one.                                                                    *)
(***************************************************************************)
C6_AtMostOneFetch == \A k \in SchemaKeys : fetches[k] <= 1

(***************************************************************************)
(* C6 as amended: a fetch for a cache key is made only by a GetSchema call *)
(* that began before the key was stored; the fetches for a key never       *)
(* outnumber those calls, and no call that begins once the key is cached   *)
(* fetches it.                                                             *)
(***************************************************************************)
C6_FetchOnlyOnMiss == \A k \in SchemaKeys : fetches[k] <= missStarts[k]

\* Two fetches were made for one key, which is now cached.
C6_Witness == \E k \in SchemaKeys : fetches[k] >= 2 /\ k \in DOMAIN schemaCache

(***************************************************************************)
(* C7: the cache map is read only under the read lock and written only     *)
(* under the write lock; no write of the map is concurrent with another    *)
(* read or write of it.                                                    *)
(***************************************************************************)
C7_LockDiscipline ==
    /\ \A c \in Callers : cpc[c] = "lookup" => (c \in readers /\ writer = 0)
    /\ \A c \in Callers : cpc[c] = "store" => (writer = c /\ readers = {})
    /\ \A c1, c2 \in Callers :
         (c1 # c2 /\ cpc[c1] = "store") => cpc[c2] \notin {"lookup", "store"}

\* A caller is about to write the map while another waits for a lock.
C7_Witness ==
    \E c1, c2 \in Callers :
        c1 # c2 /\ cpc[c1] = "store" /\ cpc[c2] \in {"rlock", "lock"}

(***************************************************************************)
(* C8 as claimed: every spelling that differs only in letter case from a   *)
(* template type, and "Step Group", is normalized to the canonical lower   *)
(* case key before the cache is looked up.                                 *)
(***************************************************************************)
C8_CaseInsensitiveKey ==
    \A c \in Callers :
        cpc[c] # "idle" =>
            /\ \A t \in ValidTypeSet : SameUpToCase(ctype[c], t) => ckey[c] = t
            /\ ctype[c] = S_Step_Group => ckey[c] = TemplateStepGroup

(***************************************************************************)
(* C9 as claimed: the schema evaluated against a template whose type       *)
(* passes the type check is the one of its canonical type: pipeline.json   *)
(* for a pipeline, template.json for a stage, step or stepgroup.           *)
(***************************************************************************)
C9_CanonicalSchema ==
    (Validated /\ vres.valid /\ vres.schema # "none") =>
        vres.schema = IF SameUpToCase(vdoc["template"].v["type"].v, TemplatePipeline)
                      THEN "pipeline.json" ELSE "template.json"

(***************************************************************************)
(* C10 as claimed: a non-nil error is returned only when the top-level     *)
(* path cannot be statted or is a file without a recognized extension.     *)
(***************************************************************************)
C10_OnlyTopLevelErrors ==
    (Returned /\ ret.err # "") =>
        ret.err \in {"error accessing template directory",
                     "specified file is not a YAML file"}

(***************************************************************************)
(* C10 as amended: a non-nil error is returned only when the output        *)
(* directory or a type subdirectory cannot be created (never in            *)
(* validate-only mode), the top-level path cannot be statted, it is a file *)
(* without a recognized extension, or the directory walk reports an error; *)
(* all of these happen before any file is dispatched.  An unreadable file  *)
(* is fatal to that file only: the batch returns no error and the records  *)
(* of all good files.                                                      *)
(***************************************************************************)
C10_FatalErrors ==
    Returned =>
        /\ ret.err # "" =>
             /\ ret.err \in {"error creating output directory",
                             "error creating type directory",
                             "error accessing template directory",
                             "specified file is not a YAML file",
                             "error walking template directory"}
             /\ ret.err \in {"error creating output directory",
                             "error creating type directory"} => ~validateOnly
             /\ spawned = 0
             /\ ret.isNil
        /\ (\E f \in FilesFound : fileContent[f].read /\ ~fileContent[f].readable) =>
             /\ ret.err = ""
             /\ \A f \in FilesFound :
                  FileGood(fileContent[f]) => \E i \in 1..Len(OkPaths) : OkPaths[i].path = f

\* A batch with an unreadable file returned without error, with a record.
C10_Witness ==
    /\ ReturnedBatch
    /\ \E f \in FilesFound : fileContent[f].read /\ ~fileContent[f].readable
    /\ ret.err = ""
    /\ Len(ret.list) >= 1

\* The name ends in the extension.
EndsIn(name, ext) ==
    Len(name) >= Len(ext) /\ SubSeq(name, Len(name) - Len(ext) + 1, Len(name)) = ext

\* The input path is missing, or a single file that is no .yaml or .yml file.
BadInput ==
    \/ templatesDir.kind = "missing"
    \/ /\ templatesDir.kind = "file"
       /\ ~EndsIn(templatesDir.name, <<".","y","a","m","l">>)
       /\ ~EndsIn(templatesDir.name, <<".","y","m","l">>)

NothingDispatched ==
    /\ sent = 0
    /\ spawned = 0
    /\ filesChan = <<>>
    /\ \A f \in Paths : handled[f] = 0
    /\ \A w \in Workers : wpc[w] = "unstarted"

(***************************************************************************)
(* C11: when the input path is a single file whose name ends in neither    *)
(* .yaml nor .yml, or does not exist, ProcessAllTemplates never gets as    *)
(* far as the discovered files: no file is dispatched to any worker, and   *)
(* when it returns it returns an error and zero records.                   *)
(***************************************************************************)
C11_BadInputFails ==
    BadInput =>
        /\ pc \in {"start", "mkdirTypes", "stat", "returned"}
        /\ NothingDispatched
        /\ Returned => ret.err # "" /\ ret.isNil /\ ret.list = <<>>

C11_Witness ==
    /\ Returned
    /\ templatesDir = [kind |-> "file", name |-> N_c_txt]
    /\ ret.err = "specified file is not a YAML file"
    /\ ret.list = <<>>

(***************************************************************************)
(* C12: when the walk of the input directory ends without having found a   *)
(* file with a template extension, the next step of ProcessAllTemplates is *)
(* to return an empty, non-null list and a nil error, no worker having     *)
(* been started; a call that returned without error and without files      *)
(* returned that empty list.                                               *)
(***************************************************************************)
C12_EmptyDirEmptyList ==
    /\ [][(pc = "found" /\ templateFiles = <<>>) =>
            /\ pc' = "returned"
            /\ ret' = [list |-> <<>>, isNil |-> FALSE, err |-> ""]
            /\ numWorkers' = 0
            /\ spawned' = 0
            /\ \A w \in Workers : wpc'[w] = "unstarted"]_vars
    /\ []((Returned /\ ret.err = "" /\ templateFiles = <<>>) =>
            /\ templatesDir.kind = "dir"
            /\ ~ret.isNil
            /\ ret.list = <<>>
            /\ NothingDispatched)

C12_Witness ==
    /\ Returned
    /\ templatesDir.kind = "dir"
    /\ templateFiles = <<>>
    /\ ret = [list |-> <<>>, isNil |-> FALSE, err |-> ""]
    /\ spawned = 0

\* The output directory (the empty path below itself) and the type directories.
AllDirs ==
    {<<>>, <<"p","i","p","e","l","i","n","e">>, <<"s","t","a","g","e">>,
     <<"s","t","e","p","g","r","o","u","p">>, <<"s","t","e","p">>}

(***************************************************************************)
(* C13: in non-validate-only mode the output directory and the four type   *)
(* subdirectories exist before a worker is started or a file is sent to    *)
(* the workers, whatever files were discovered; in validate-only mode no   *)
(* directory is ever created.                                              *)
(***************************************************************************)
C13_DirsBeforeDispatch ==
    /\ validateOnly => dirs = {}
    /\ (~validateOnly /\ (pc \in {"found", "spawn", "send", "close", "collect"}
                           \/ ~NothingDispatched))
          => dirs = AllDirs

C13_Witness ==
    /\ ~validateOnly
    /\ sent = 1
    /\ pc = "send"
    /\ fileContent[1].read
    /\ ~FileGood(fileContent[1])
    /\ dirs = AllDirs

Min(a, b) == IF a < b THEN a ELSE b

\* The workers that hold a file: received, not yet done with it.
Busy == {w \in Workers : wpc[w] \in {"process", "emit"}}

(***************************************************************************)
(* C14: the number of workers started is min(NumCPU, number of discovered  *)
(* files), at least 1 when a file was discovered, and at no time are more  *)
(* files in the hands of workers than that number.                         *)
(***************************************************************************)
C14_WorkerCount ==
    /\ spawned <= numWorkers
    /\ Cardinality({w \in Workers : wpc[w] # "unstarted"}) = spawned
    /\ (pc \in {"spawn", "send", "close", "collect"} \/ ReturnedBatch) =>
         /\ numWorkers = Min(numCPU, Len(templateFiles))
         /\ numWorkers >= 1
    /\ (pc \in {"send", "close", "collect"} \/ ReturnedBatch) => spawned = numWorkers
    /\ Cardinality(Busy) <= Min(numCPU, Len(templateFiles))

C14_Witness ==
    /\ numCPU = MaxCPU
    /\ Len(templateFiles) = MaxFiles
    /\ spawned = Min(MaxCPU, MaxFiles)
    /\ Cardinality(Busy) = Min(MaxCPU, MaxFiles)

\* The batch of a CLI command has its workers started.
CommandDispatched ==
    /\ command # "none"
    /\ numWorkers > 0
    /\ pc \in {"send", "close", "collect", "returned", "exited"}

(***************************************************************************)
(* C15: a batch run by the generate or the validate command has as many    *)
(* worker goroutines as --concurrency (cfg.Concurrency) says.              *)
(***************************************************************************)
C15_ConfiguredConcurrency ==
    CommandDispatched => spawned = cfg.Concurrency

\* A worker has found that the file fails validation.
FailedValidation(f) ==
    /\ fileContent[f].read
    /\ fileContent[f].readable
    /\ fileContent[f].parses
    /\ ~StructurallyValid(fileContent[f].doc)

FailFastRun == command = "validate" /\ cfg.FailFast

(***************************************************************************)
(* C16: in a validate command run with --fail-fast, once a template has    *)
(* failed validation no worker processes a further template, and the       *)
(* command returns an error.                                               *)
(***************************************************************************)
C16_FailFastStops ==
    /\ [][(FailFastRun /\ \E f \in Paths : FailedValidation(f)) =>
            \A w \in Workers : ~(wpc[w] = "process" /\ wpc'[w] = "emit")]_vars
    /\ []((FailFastRun /\ pc = "exited" /\ \E f \in Paths : FailedValidation(f))
            => cmdErr # "")

\* No fetch is logged for a cache key after a failed fetch for that key.
NoFetchAfterFailure ==
    \A i, j \in 1..Len(fetchLog) :
        (i < j /\ fetchLog[i].key = fetchLog[j].key) => fetchLog[i].ok

ClosedTypes == AllDirs \ {<<>>}

\* ProcessTemplate's validation and extraction have both succeeded: the
\* metadata is the record ProcessTemplate returns.
RecordProduced == vstep = "extracted" /\ vres.valid /\ ~vmeta.err

(***************************************************************************)
(* C18: every record produced has a type that is one of pipeline, stage,   *)
(* stepgroup, step in lower case; a document whose type extracts to        *)
(* anything else was rejected by validation.                               *)
(***************************************************************************)
C18_TypeInClosedSet ==
    RecordProduced => vmeta.metadata.Type \in ClosedTypes

\* ExtractMetadata ran on a document whose template is a mapping.
Extracted ==
    /\ vstep = "extracted"
    /\ "template" \in DOMAIN vdoc
    /\ vdoc["template"].kind = "map"

\* The versionLabel of the document, nil when it has none.
LabelOf(d) ==
    IF "versionLabel" \in DOMAIN d["template"].v
    THEN d["template"].v["versionLabel"] ELSE [kind |-> "nil", v |-> 0]

\* The number and the one-decimal text of the numeric labels 1, 1.0, 2, 2.0
\* (a float64 is held in quarters).
WholeNumberText(lbl) ==
    CASE lbl \in {[kind |-> "int", v |-> 1], [kind |-> "float64", v |-> 4]}
           -> <<"1",".","0">>
      [] lbl \in {[kind |-> "int", v |-> 2], [kind |-> "float64", v |-> 8]}
           -> <<"2",".","0">>
      [] OTHER -> <<>>

(***************************************************************************)
(* C19: ExtractMetadata passes a string versionLabel through unchanged and *)
(* turns every numeric versionLabel into a one-decimal string: numeric 1   *)
(* and 1.0 give "1.0" and numeric 2 gives "2.0", for a document built in   *)
(* memory and for one parsed from a YAML file.                             *)
(***************************************************************************)
C19_NumericVersionCoerced ==
    Extracted =>
        LET lbl == LabelOf(vdoc)
            ver == vmeta.metadata.Version
        IN  /\ ~vmeta.err
            /\ lbl.kind = "string" => ver = lbl.v
            /\ (lbl.kind \in {"int", "float64"} /\ WholeNumberText(lbl) # <<>>)
                  => ver = WholeNumberText(lbl)
            /\ lbl.kind \in {"int", "float64"}
                  => Len(ver) >= 3 /\ ver[Len(ver) - 1] = "."
            /\ vsrc.versionLabel
                  \in {[node |-> "scalar", quoted |-> FALSE, text |-> <<"1">>],
                       [node |-> "scalar", quoted |-> FALSE, text |-> <<"1",".","0">>]}
                  => ver = <<"1",".","0">>
            /\ vsrc.versionLabel = [node |-> "scalar", quoted |-> FALSE, text |-> <<"2">>]
                  => ver = <<"2",".","0">>

\* The tags of the document, nil when it has none.
TagsOf(d) ==
    IF "tags" \in DOMAIN d["template"].v
    THEN d["template"].v["tags"] ELSE [kind |-> "nil", v |-> 0]

\* The string elements of a sequence of values, in their order.
StringsOf(items) ==
    LET strs == SelectSeq(items, LAMBDA x : x.kind = "string")
    IN  [i \in 1..Len(strs) |-> strs[i].v]

(***************************************************************************)
(* C20: ExtractMetadata yields, without error, an empty non-null tag       *)
(* sequence when tags is absent, an empty mapping or any other value that  *)
(* is no sequence, and exactly the string elements of tags, in their       *)
(* order, when tags is a sequence; so it does for a document parsed from a *)
(* YAML file.                                                              *)
(***************************************************************************)
C20_TagsExtracted ==
    Extracted =>
        LET tags == TagsOf(vdoc)
            out == vmeta.metadata.Tags
        IN  /\ ~vmeta.err
            /\ ~out.isNil
            /\ tags.kind # "seq" => out.elems = <<>>
            /\ tags.kind = "seq" => out.elems = StringsOf(tags.v)
            /\ (vsrc.file /\ vsrc.tags.node \in {"absent", "map", "scalar"})
                  => out.elems = <<>>
            /\ (vsrc.file /\ vsrc.tags.node = "seq")
                  => Len(out.elems) <= Len(vsrc.tags.items)

C20_Witness ==
    /\ Extracted
    /\ vsrc.file
    /\ vsrc.tags = SeqNode(<<Plain(S_a), Plain(S_1), Quoted(S_a)>>)
    /\ vmeta.metadata.Tags = [isNil |-> FALSE, elems |-> <<S_a, S_a>>]

(***************************************************************************)
(* C21: ExtractMetadata is a pure function of its input: a second call on  *)
(* the same document returns a record equal to the first in every field,   *)
(* and a call leaves the document, the processor and the schema cache and  *)
(* its locks as they were.                                                 *)
(***************************************************************************)
ExtractCall ==
    \/ vstep = "validated" /\ vstep' = "extracted"
    \/ vstep = "extracted" /\ vstep' = "again"

NoTemplateObject(d) ==
    \/ "template" \notin DOMAIN d
    \/ d["template"].kind # "map"

C22_ExtractFailsExactly ==
    vstep = "extracted" =>
        /\ vmeta.err <=> NoTemplateObject(vdoc)
        /\ vmeta.err => vmeta.metadata = NilV
        /\ ~vmeta.err => vmeta.metadata # NilV /\ vmeta.metadata.RawTemplate = vdoc
        /\ vres.valid => ~vmeta.err

C22_Witness ==
    /\ vstep = "extracted"
    /\ vmeta.err
    /\ "template" \in DOMAIN vdoc
    /\ ~vres.valid

(***************************************************************************)
(* C23: in ExtractMetadata a field of the wrong type behaves as an absent  *)
(* one.  The record extracted from a document equals, field for field,     *)
(* the record extracted from the document with its wrong-typed fields      *)
(* taken out; name, identifier and type then default to "Unnamed           *)
(* Template", "unnamed_template" and "unknown"; a variable or parameter    *)
(* without type, required or scope gets "string", false and "template";    *)
(* an entry of variables or parameters that is no mapping yields nothing;  *)
(* and a parameter's default is the value the document carries.            *)
(***************************************************************************)
\* The keys of m, without those of keys whose value is not of the kind wanted.
WithoutWrong(m, keys, kind) ==
    [k \in {x \in DOMAIN m : x \in keys => m[x].kind = kind} |-> m[k]]

\* An entry of variables or parameters with its wrong-typed fields taken out.
CleanEntry(e) ==
    MapV(WithoutWrong(WithoutWrong(e.v, {"description", "type", "scope"}, "string"),
                      {"required"}, "bool"))

\* A variables or parameters mapping with the entries that are no mapping,
\* and the wrong-typed fields of the others, taken out.
CleanEntries(m) ==
    MapV([n \in {x \in DOMAIN m.v : m.v[x].kind = "map"} |-> CleanEntry(m.v[n])])

\* A template object with its wrong-typed fields taken out.
CleanObject(o) ==
    LET strings == WithoutWrong(o, {"name", "identifier", "type"}, "string")
        maps == WithoutWrong(strings, {"variables", "parameters"}, "map")
    IN  [k \in DOMAIN maps |->
           IF k \in {"variables", "parameters"} THEN CleanEntries(maps[k]) ELSE maps[k]]

CleanDocument(d) == [k \in DOMAIN d |-> IF k = "template" THEN MapV(CleanObject(d[k].v)) ELSE d[k]]

RecordFields == {"Name", "Identifier", "Type", "Description", "Author", "Version", "Tags",
                 "Variables", "Parameters", "Examples"}

\* The entries of a variables or parameters value that are mappings.
MappingEntries(o, key) ==
    IF key \in DOMAIN o /\ o[key].kind = "map"
    THEN {n \in DOMAIN o[key].v : o[key].v[n].kind = "map"}
    ELSE {}

EntryDefaults(entry, extracted) ==
    /\ "type" \notin DOMAIN entry => extracted.Type = <<"s","t","r","i","n","g">>
    /\ "required" \notin DOMAIN entry => extracted.Required = FALSE
    /\ "scope" \notin DOMAIN entry => extracted.Scope = <<"t","e","m","p","l","a","t","e">>

C23_WrongTypeAsAbsent ==
    Extracted =>
        LET clean == CleanDocument(vdoc)
            o == clean["template"].v
            again == ExtractMetadata(clean)
            md == vmeta.metadata
        IN  /\ ~vmeta.err /\ ~again.err
            /\ \A f \in RecordFields : md[f] = again.metadata[f]
            /\ "name" \notin DOMAIN o => md.Name = S_UnnamedTemplate
            /\ "identifier" \notin DOMAIN o => md.Identifier = S_unnamed_template
            /\ "type" \notin DOMAIN o => md.Type = S_unknown
            /\ DOMAIN md.Variables = MappingEntries(vdoc["template"].v, "variables")
            /\ DOMAIN md.Parameters = MappingEntries(vdoc["template"].v, "parameters")
            /\ \A n \in DOMAIN md.Variables :
                  EntryDefaults(o["variables"].v[n].v, md.Variables[n])
            /\ \A n \in DOMAIN md.Parameters :
                  /\ EntryDefaults(o["parameters"].v[n].v, md.Parameters[n])
                  /\ md.Parameters[n].Default =
                       (IF "default" \in DOMAIN vdoc["template"].v["parameters"].v[n].v
                        THEN vdoc["template"].v["parameters"].v[n].v["default"]
                        ELSE NilV)

\* A parameter whose type and required are of the wrong type was extracted
\* from a document whose identifier is a number.
C23_Witness ==
    /\ Extracted
    /\ ~vmeta.err
    /\ DOMAIN vdoc["template"].v = {"name", "type", "identifier", "parameters"}
    /\ vdoc["template"].v["identifier"].kind = "int"
    /\ \E n \in DOMAIN vmeta.metadata.Parameters :
          LET entry == vdoc["template"].v["parameters"].v[n].v IN
          /\ "required" \in DOMAIN entry /\ entry["required"].kind = "string"
          /\ "type" \in DOMAIN entry /\ entry["type"].kind = "int"
          /\ vmeta.metadata.Parameters[n].Type = <<"s","t","r","i","n","g">>

(***************************************************************************)
(* C24: a GetSchema whose normalized type is in the cache when it looks it *)
(* up returns the cached schema, issues no fetch and leaves the cache as   *)
(* it is; and no step ever takes a type out of the cache, so every lookup  *)
(* after a type was cached finds it.                                       *)
(***************************************************************************)
FetchPath == {"fetch", "lock", "store", "unlock"}

\* Caller c leaves the position named.
Leaves(c, position) == cpc[c] = position /\ cpc'[c] # position

C24_HitIsFree ==
    [][/\ \A k \in DOMAIN schemaCache : k \in DOMAIN schemaCache'
       /\ \A c \in Callers :
            /\ (Leaves(c, "lookup") /\ ckey[c] \in DOMAIN schemaCache) =>
                   cexists'[c] /\ cschema'[c] = schemaCache[ckey[c]]
            /\ (Leaves(c, "runlock") /\ cexists[c]) =>
                   /\ cpc'[c] = "idle"
                   /\ cres'[c] = [err |-> FALSE, schema |-> cschema[c]]
                   /\ schemaCache' = schemaCache
                   /\ fetches' = fetches
            /\ cpc'[c] \in FetchPath => ~cexists'[c]]_vars

\* A call has hit the entry an earlier call stored, while another type is
\* cached too.
C24_Witness ==
    \E c \in Callers :
        /\ cpc[c] = "idle"
        /\ cexists[c]
        /\ cres[c] = [err |-> FALSE, schema |-> schemaCache[ckey[c]]]
        /\ fetches[ckey[c]] = 1
        /\ Cardinality(DOMAIN schemaCache) = 2

(***************************************************************************)
(* C25: callers that miss the cache for one type at the same time each     *)
(* issue their own fetch: a caller in the network call holds no lock and   *)
(* can proceed whatever the others do; each successful fetch overwrites    *)
(* the entry with the document it received; and once the racing calls     *)
(* have returned, the cache holds for that type the document one of them   *)
(* received.                                                               *)
(***************************************************************************)
\* Caller c's last call has returned the document it fetched itself.
FetchedOwn(c) == cpc[c] = "idle" /\ ~cexists[c] /\ cres[c].schema # "none"

C25_RacingFetches ==
    /\ [](\A c \in Callers :
            cpc[c] = "fetch" =>
               /\ c \notin readers
               /\ writer # c
               /\ ENABLED FetchSchemaGet(c))
    /\ [][\A c \in Callers :
            /\ Leaves(c, "fetch") => fetches'[ckey[c]] = fetches[ckey[c]] + 1
            /\ Leaves(c, "store") =>
                  /\ cschema[c] = SchemaFileFor(ckey[c])
                  /\ ckey[c] \in DOMAIN schemaCache'
                  /\ schemaCache'[ckey[c]] = cschema[c]
                  /\ \A k \in DOMAIN schemaCache \ {ckey[c]} :
                        k \in DOMAIN schemaCache' /\ schemaCache'[k] = schemaCache[k]
            /\ FetchedOwn(c)' =>
                  /\ ckey'[c] \in DOMAIN schemaCache'
                  /\ schemaCache'[ckey'[c]] \in
                        {cschema'[d] : d \in {x \in Callers : ckey'[x] = ckey'[c]}}]_vars

\* Two callers missed one type, each issued its own fetch, and both have
\* returned.
C25_Witness ==
    \E c, d \in Callers :
        /\ c # d
        /\ ckey[c] = ckey[d]
        /\ FetchedOwn(c) /\ FetchedOwn(d)
        /\ fetches[ckey[c]] = 2
        /\ ncalls = 2
        /\ schemaCache[ckey[c]] = cres[d].schema

(***************************************************************************)
(* C26: when the fetch of a schema fails, GetSchema returns an error and   *)
(* no schema and the cache is left as it was; ValidateTemplate then        *)
(* accepts the document with "schema not available", and ProcessTemplate   *)
(* returns its record without an error.                                    *)
(***************************************************************************)
\* The cache key of the schema ValidateTemplate asks for.
SchemaKeyOf(d) == schemaTypeNormalize(schemaTypeNormalize(d["template"].v["type"].v))

\* ValidateTemplate is called on a well-formed document whose schema is not
\* cached, and the fetch fails.
FailedFetchCall ==
    /\ vstep = "loaded"
    /\ vstep' = "validated"
    /\ hasManager
    /\ StructurallyValid(vdoc)
    /\ SchemaKeyOf(vdoc) \notin DOMAIN schemaCache
    /\ ~venv'.fetchOK

C26_FailedFetchAccepted ==
    [][FailedFetchCall =>
         /\ GetSchemaSeq(schemaCache, schemaTypeNormalize(vdoc["template"].v["type"].v),
                         FALSE).err
         /\ vres'.schema = "none"
         /\ schemaCache' = schemaCache
         /\ vres'.valid
         /\ vres'.msg = "Basic validation passed (schema not available)"
         /\ \A e \in SchemaEvalOutcomes :
               LET r == ProcessTemplate(FileOf(vdoc), TRUE, schemaCache, FALSE, e) IN
               r.err = "" /\ r.metadata # NilV /\ r.cache = schemaCache]_vars

\* A fetch failed for a document while the schema of another type is cached.
C26_Witness ==
    /\ vstep = "validated"
    /\ hasManager
    /\ StructurallyValid(vdoc)
    /\ ~venv.fetchOK
    /\ SchemaKeyOf(vdoc) \notin DOMAIN schemaCache
    /\ schemaCache # EmptyCache
    /\ vres.valid
    /\ vres.msg = "Basic validation passed (schema not available)"

(***************************************************************************)
(* C27: ProcessTemplate reads, parses, validates and extracts in that      *)
(* order, each step only after the one before succeeded: ExtractMetadata   *)
(* is never called on a file that did not parse or that ValidateTemplate   *)
(* rejected, and a file that fails a step yields an error and no record.   *)
(***************************************************************************)
StepOrder == <<"read", "parse", "validate", "extract">>

Took(step) == \E i \in 1..Len(ptrace) : ptrace[i] = step

FileRejected == ~pfile.readable \/ ~pfile.parses \/ ~vres.valid

C27_StepsInOrder ==
    /\ Len(ptrace) <= Len(StepOrder)
    /\ ptrace = SubSeq(StepOrder, 1, Len(ptrace))
    /\ Took("parse") => pfile.readable
    /\ Took("validate") => pfile.parses
    /\ Took("extract") => pfile.parses /\ vres.valid
    /\ pstep = "returned" =>
          /\ FileRejected => pres.metadata = NilV /\ pres.err # "" /\ ~Took("extract")
          /\ ~FileRejected => Took("extract")
          /\ LET r == ProcessTemplate(pfile, hasManager, schemaCache, venv.fetchOK,
                                      venv.evalOutcome)
             IN  pres = [metadata |-> r.metadata, err |-> r.err]

\* A file whose template object lacks its type was rejected by
\* ValidateTemplate, and ProcessTemplate returned without extracting.
C27_Witness ==
    /\ pstep = "returned"
    /\ ptrace = <<"read", "parse", "validate">>
    /\ ~vres.valid
    /\ pres.metadata = NilV
    /\ pres.err = "validation failed"
    /\ ~NoTemplateObject(pfile.doc)

(***************************************************************************)
(* C28: the worker pool returns what processing the discovered files one   *)
(* after another with ProcessTemplate returns: whatever the files, the     *)
(* number of workers and the interleaving, the returned records are the    *)
(* records of the sequential run, each as often, and the counts of valid   *)
(* and failed files are those of the sequential run; the order of the      *)
(* records is free.                                                        *)
(***************************************************************************)
\* The files processed in walk order by one goroutine, the schema cache
\* handed from each call to the next.
RECURSIVE SequentialRun(_, _, _, _)
SequentialRun(files, cache, fetchOK, evalOutcome) ==
    IF files = <<>> THEN [list |-> <<>>, valid |-> 0, errors |-> 0]
    ELSE LET r == ProcessTemplate(fileContent[Head(files)], hasManager, cache, fetchOK,
                                  evalOutcome)
             rest == SequentialRun(Tail(files), r.cache, fetchOK, evalOutcome)
         IN  IF r.err = ""
             THEN [list |-> <<r.metadata>> \o rest.list, valid |-> rest.valid + 1,
                   errors |-> rest.errors]
             ELSE [list |-> rest.list, valid |-> rest.valid, errors |-> rest.errors + 1]

CountIn(list, x) == Cardinality({i \in 1..Len(list) : list[i] = x})

SameMultiset(a, b) ==
    /\ Len(a) = Len(b)
    /\ \A i \in 1..Len(a) : CountIn(a, a[i]) = CountIn(b, a[i])

C28_PoolAsSequential ==
    ReturnedBatch =>
        \A fetchOK \in BOOLEAN, evalOutcome \in SchemaEvalOutcomes :
            LET run == SequentialRun(templateFiles, EmptyCache, fetchOK, evalOutcome) IN
            /\ ret.err = ""
            /\ SameMultiset(ret.list, run.list)
            /\ validCount = run.valid
            /\ errorCount = run.errors

\* Two workers processed two valid files with equal documents, and the
\* result of the second file was collected first.
C28_Witness ==
    /\ ReturnedBatch
    /\ numWorkers = 2
    /\ Len(templateFiles) = 2
    /\ Len(ret.list) = 2
    /\ ret.list[1] = ret.list[2]
    /\ collected[1].path = 2

(***************************************************************************)
(* C29: the validate command returns an error only when the configuration  *)
(* is invalid or ProcessAllTemplates returns an error.  Templates that     *)
(* fail validation are counted, not reported: a run with invalid           *)
(* templates returns nil and reports as validated the number of valid      *)
(* templates.                                                              *)
(***************************************************************************)
ValidateExited == command = "validate" /\ pc = "exited"

\* The configuration of the validate command is in order: the source
\* exists and the concurrency is at least 1.
ConfigInOrder == templatesDir.kind # "missing" /\ cfg.Concurrency >= 1

\* The number the command reports: len(metadata).
ReportedCount == Len(ret.list)

DocumentedFormats ==
    {<<"h","t","m","l">>, <<"m","a","r","k","d","o","w","n">>, <<"j","s","o","n">>}

\* The generate command has processed at least one valid template and
\* returned nil, for one of the three formats.
GenerateSucceeded ==
    /\ command = "generate"
    /\ pc = "exited"
    /\ cmdErr = ""
    /\ cfg.OutputFormat \in DocumentedFormats
    /\ Len(ret.list) >= 1

C30_EveryFormatWrites == GenerateSucceeded => written # {}

====
